---- MODULE Spec2Model ----
(***************************************************************************)
(* Verification model of the DNS forwarding resolver (src/dns).            *)
(*                                                                         *)
(*  - Slots / DnsClient (src/dns/src/client.rs): the slot table, the       *)
(*    query calls sharing one socket and the background receive loop.      *)
(*  - Flags (src/dns/src/protocol.rs): the packed two-byte flag field.     *)
(*  - Processor (src/dns/src/server.rs) with DnsCache (src/dns/src/cache.rs)*)
(***************************************************************************)
EXTENDS Integers, Sequences, FiniteSets, TLC

\* ------------------------------------------------------------------ bounds
\* Size of the transaction id space (u16 in the code: 65536), scaled down.
IdSpace == 2
\* Number of DnsClient::query calls of one behaviour.
NumCalls == 3
\* Number of inbound queries (handle_query tasks) of one behaviour.
NumTasks == 2
\* Last second of the wall clock.
MaxClock == 2

Ids == 0 .. (IdSpace - 1)
Calls == 1 .. NumCalls
\* Transaction ids the callers put in their own messages: the smallest and
\* the largest id.
OrigIds == {0, IdSpace - 1}

VARIABLES
    pending,   \* Slots.pending : id -> NoSlot | (orig_id, tx)
    counter,   \* Slots.counter
    pc,        \* position of each query call
    cid,       \* client_id of each query call (the id create returned)
    orig,      \* msg.header.id of each query call
    chan,      \* the oneshot channel of each query call
    result,    \* what each query call returned
    sent,      \* packets the upstream has been sent
    rlPc,      \* position of the receive loop
    rlMsg,     \* the message the receive loop decoded and is about to route
    lock,      \* the tasks holding a guard of Channel.slots (a tokio Mutex)
    last,      \* the last operation called directly on a unit, and its result
    tick,      \* flips on every operation called directly on a unit
    flags,     \* a Flags value: its two bytes
    buf,       \* the datagram last given to Message::from_bytes directly
    parsed,    \* what that call returned
    got,       \* what the last DnsCache::get called directly returned
    wire,      \* the bytes last given to the codec directly
    decoded,   \* what Message::from_bytes returned for them
    written,   \* the message last given to Message::to_udp_packet directly
    encoded,   \* what Message::to_udp_packet returned for it
    writer,    \* a MessageWriter used directly: bytes written and label_tally
    now,       \* wall clock, in seconds
    cache,     \* DnsCache: question -> entry
    srvPc,     \* position of Processor::run_loop
    tpc,       \* position of each handle_query task
    tin,       \* the inbound datagrams, in the order run_loop received them
    tq,        \* the query each task handles
    tup,       \* whether each task has sent a query upstream
    upq,       \* requests the upstream holds, unanswered
    usock,     \* datagrams waiting on the processor's upstream socket
    outbox     \* datagrams sent to the clients

codecVars == <<wire, decoded, written, encoded, writer>>
procVars == <<now, cache, srvPc, tin, tpc, tq, tup, upq, usock, outbox>>
vars == <<pending, counter, pc, cid, orig, chan, result, sent, rlPc, rlMsg, lock, last, tick, flags,
          buf, parsed, got, wire, decoded, written, encoded, writer, procVars>>
unitVars == <<last, tick, flags, buf, parsed, got, codecVars>>
nonClientVars == <<unitVars, procVars>>
callVars == <<pc, cid, orig, chan, result, sent, rlPc, rlMsg, lock>>
clientVars == <<pending, counter, callVars>>

\* ------------------------------------------------------------ Slots (client.rs)
NoSlot == [orig |-> -1, tx |-> 0]
Slot(o, t) == [orig |-> o, tx |-> t]

SlotsNew == [pending |-> [i \in Ids |-> NoSlot], counter |-> 0]

\* pending.len()
PendingLen(p) == Cardinality({i \in Ids : p[i] # NoSlot})

\* u16::wrapping_add(1)
WrappingAdd1(k) == (k + 1) % IdSpace

\* Variant: the table counts as full at u16::MAX entries (off by one).
IsFullOffByOne(p) == PendingLen(p) = IdSpace - 1

\* `pending.len() == (u16::MAX as usize) + 1`
IsFull(p) == PendingLen(p) = IdSpace

\* Variant: no search for a free key, the incremented counter is used as is.
FindFreeKeyNoSkip(p, k) == k

\* the `while self.pending.contains_key(&self.counter)` loop, from counter k
RECURSIVE FindFreeKey(_, _)
FindFreeKey(p, k) == IF p[k] # NoSlot THEN FindFreeKey(p, WrappingAdd1(k)) ELSE k

\* Slots::create : Err (ok = FALSE) or Ok((client_id, rx))
SlotsCreate(p, ctr, o, t) ==
    IF IsFull(p)
    THEN [ok |-> FALSE, id |-> 0, pending |-> p, counter |-> ctr]
    ELSE LET k == FindFreeKey(p, WrappingAdd1(ctr))
         IN [ok |-> TRUE, id |-> k,
             pending |-> [p EXCEPT ![k] = Slot(o, t)], counter |-> k]

\* Slots::remove : the removed entry (NoSlot for None) and the table after
SlotsRemove(p, id) == [found |-> p[id], pending |-> [p EXCEPT ![id] = NoSlot]]

\* ------------------------------------------------------------------ values
NoMsg == [id |-> -1, for |-> 0]
\* oneshot channel states other than "holds a message"
Empty == NoMsg
Closed == [id |-> -2, for |-> 0]
\* what a query call returned
NotReturned == [kind |-> "none", msg |-> NoMsg]
Ok(m) == [kind |-> "ok", msg |-> m]
Err(e) == [kind |-> e, msg |-> NoMsg]

\* The processor's messages: transaction id, the two flag bytes, the
\* question (0: none), the header's ancount and the answer records.
PMsg(i, f, q, n, a) == [id |-> i, flags |-> f, q |-> q, ancount |-> n, answers |-> a]
NoPMsg == PMsg(-1, <<0, 0>>, 0, 0, <<>>)

Tasks == 1 .. NumTasks
\* The questions asked: two distinct (name, type, class) keys.
Questions == {1, 2}

\* DnsCacheValue, with the expiry the container keeps for the entry (ms)
CacheEntry(a, at, ttl) == [answers |-> a, inserted_at |-> at, ttl_ms |-> ttl]
NoEntry == CacheEntry(<<>>, -1, 0)
\* DnsCache::new
CacheNew == [q \in Questions |-> NoEntry]

\* --------------------------------------------------- messages and datagrams
\* A message is abstracted to its transaction id and the query call whose
\* request it answers (`for`, a ghost tag standing for the payload).
Msg(i, f) == [id |-> i, for |-> f]

\* Message::to_udp_packet(Some(client_id)): the packet of `m` with the
\* transaction id replaced by `id`.
ToUdpPacketWithId(m, id) == Msg(id, m.for)

\* A datagram, abstracted to what Message::from_bytes branches on (at least
\* 12 bytes or not, the header's qdcount, how the question name and the
\* records read) and the message it carries when it is well formed.
Datagram(l, qd, qn, rr, m) ==
    [len12 |-> l, qdcount |-> qd, qname |-> qn, rrs |-> rr, msg |-> m]

\* The upstream's well-formed answer to packet p.
UpstreamReply(p) == Datagram(TRUE, 1, "ok", "ok", Msg(p.id, p.for))

\* Malformed datagrams: shorter than 12 bytes, truncated question name,
\* non-UTF-8 label, two questions, truncated record.
BadDatagrams ==
    { Datagram(FALSE, 0, "ok", "ok", NoMsg),
      Datagram(TRUE, 1, "trunc", "ok", NoMsg),
      Datagram(TRUE, 1, "badutf8", "ok", NoMsg),
      Datagram(TRUE, 2, "ok", "ok", NoMsg),
      Datagram(TRUE, 0, "ok", "trunc", NoMsg) }

\* Variant: only three questions or more are refused.
MessageFromBytesUpToTwo(d) ==
    IF ~d.len12 THEN [kind |-> "panic", msg |-> NoMsg]
    ELSE IF d.qdcount >= 3 THEN [kind |-> "err", msg |-> NoMsg]
    ELSE IF d.qdcount >= 1 /\ d.qname # "ok" THEN [kind |-> "panic", msg |-> NoMsg]
    ELSE IF d.rrs = "badutf8" THEN [kind |-> "panic", msg |-> NoMsg]
    ELSE IF d.rrs = "trunc" THEN [kind |-> "err", msg |-> NoMsg]
    ELSE [kind |-> "ok", msg |-> d.msg]

\* Message::from_bytes: "ok" with the message, "err" (an Err value) or
\* "panic" (index out of bounds in Header::from_bytes, or an expect()).
MessageFromBytes(d) ==
    IF ~d.len12 THEN [kind |-> "panic", msg |-> NoMsg]
    ELSE IF d.qdcount >= 2 THEN [kind |-> "err", msg |-> NoMsg]
    ELSE IF d.qdcount = 1 /\ d.qname # "ok" THEN [kind |-> "panic", msg |-> NoMsg]
    ELSE IF d.rrs = "badutf8" THEN [kind |-> "panic", msg |-> NoMsg]
    ELSE IF d.rrs = "trunc" THEN [kind |-> "err", msg |-> NoMsg]
    ELSE [kind |-> "ok", msg |-> d.msg]

\* ------------------------------------------------------------------- Init
\* Before the first call made directly on a unit: the empty buffer, nothing
\* parsed, nothing got.
NoDatagram == Datagram(FALSE, 0, "ok", "ok", NoPMsg)
NotParsed == [kind |-> "none", msg |-> NoPMsg]
NoAnswers == [hit |-> FALSE, answers |-> <<>>]
\* A message as from_bytes builds it from the bytes: the header's fields and
\* the four sections.
WireMsg(i, f, qd, an, ns, ar, qs, as, aus, ads) ==
    [id |-> i, flags |-> f, qdcount |-> qd, ancount |-> an, nscount |-> ns, arcount |-> ar,
     questions |-> qs, answers |-> as, authorities |-> aus, additionals |-> ads]
NoWireMsg == WireMsg(0, <<0, 0>>, 0, 0, 0, 0, <<>>, <<>>, <<>>, <<>>)
NotDecoded == [kind |-> "none", msg |-> NoWireMsg]

ClientInit ==
    /\ pending = SlotsNew.pending
    /\ counter = SlotsNew.counter
    /\ pc = [c \in Calls |-> "idle"]
    /\ cid = [c \in Calls |-> 0]
    /\ orig = [c \in Calls |-> 0]
    /\ chan = [c \in Calls |-> Empty]
    /\ result = [c \in Calls |-> NotReturned]
    /\ sent = {}
    /\ rlPc = "recv"
    /\ rlMsg = NoMsg
    /\ lock = {}

UnitInit ==
    /\ last = [op |-> "none", ok |-> TRUE, val |-> 0]
    /\ tick = 0
    /\ buf = NoDatagram
    /\ parsed = NotParsed
    /\ got = NoAnswers
    /\ wire = <<>>
    /\ decoded = NotDecoded
    /\ written = NoWireMsg
    /\ encoded = <<>>
    /\ writer = [out |-> <<>>, tally |-> {}]

\* Processor::build
ProcInit ==
    /\ now = 0
    /\ cache = CacheNew
    /\ srvPc = "recv"
    /\ tin = [t \in Tasks |-> NoDatagram]
    /\ tpc = [t \in Tasks |-> "none"]
    /\ tq = [t \in Tasks |-> NoPMsg]
    /\ tup = [t \in Tasks |-> FALSE]
    /\ upq = {}
    /\ usock = {}
    /\ outbox = {}

Init ==
    /\ ClientInit
    /\ UnitInit
    /\ flags = <<0, 0>>
    /\ ProcInit

\* ------------------------------------------------- DnsClient::query (client.rs)
\* The receiving half of call c's oneshot channel exists (not yet dropped).
RxAlive(c) == pc[c] \in {"send", "sendfail", "wait"}

\* Dropping the Sender half of a removed entry closes the owner's channel.
DropTx(ch, slot) ==
    IF slot # NoSlot /\ ch[slot.tx] = Empty
    THEN [ch EXCEPT ![slot.tx] = Closed]
    ELSE ch

\* query returns r: its locals and its Receiver are dropped.
Return(c, r, ch) ==
    /\ pc' = [pc EXCEPT ![c] = "done"]
    /\ result' = [result EXCEPT ![c] = r]
    /\ cid' = [cid EXCEPT ![c] = 0]
    /\ orig' = [orig EXCEPT ![c] = 0]
    /\ chan' = [ch EXCEPT ![c] = Empty]

\* The receive loop, as a holder of the lock (the query calls are 1..NumCalls).
ReceiveLoop == 0

\* Variant: the guard is bound to a local and lives on after the statement.
LockedKept(w) == lock \subseteq {w} /\ lock' = {w}

\* `st.slots.lock().await.<create|remove>(..)` by task w: the statement runs
\* once no other task holds a guard (w's own was granted at the .await, or
\* the lock was free and is taken without suspending); the guard is a
\* temporary and is dropped where the statement ends. In the receive loop
\* that is the end of the `if let`, with no .await inside it.
Locked(w) == lock \subseteq {w} /\ lock' = {}

\* Variant: the call returns its error without removing its slot.
RemoveOwnForgotten(c, e) == pending' = pending /\ lock' = lock /\ Return(c, Err(e), chan)

\* `self.st.slots.lock().await.remove(client_id);` of call c: the removed
\* entry, if any, is dropped.
RemoveOwn(c, e) ==
    LET r == SlotsRemove(pending, cid[c])
    IN /\ Locked(c)
       /\ pending' = r.pending
       /\ Return(c, Err(e), DropTx(chan, r.found))

\* line 113: slots.lock().await.create(msg.header.id)?
Query_create(c) ==
    /\ pc[c] = "idle"
    /\ \A b \in Calls : b < c => pc[b] # "idle"   \* calls are numbered as they start
    /\ \E o \in OrigIds :
         LET r == SlotsCreate(pending, counter, o, c)
         IN /\ pending' = r.pending
            /\ counter' = r.counter
            /\ IF r.ok
               THEN /\ cid' = [cid EXCEPT ![c] = r.id]
                    /\ orig' = [orig EXCEPT ![c] = o]
                    /\ pc' = [pc EXCEPT ![c] = "send"]
                    /\ UNCHANGED <<result, chan>>
               ELSE Return(c, Err("OutOfSlots"), chan)
    /\ Locked(c)
    /\ UNCHANGED <<sent, rlPc, rlMsg, nonClientVars>>

\* lines 114-115: the packet is built and send_to succeeds
Query_send(c) ==
    /\ pc[c] = "send"
    /\ sent' = sent \cup {ToUdpPacketWithId(Msg(orig[c], c), cid[c])}
    /\ pc' = [pc EXCEPT ![c] = "wait"]
    /\ UNCHANGED <<pending, counter, cid, orig, chan, result, rlPc, rlMsg, lock, nonClientVars>>

\* line 115: send_to fails
Query_send_err(c) ==
    /\ pc[c] = "send"
    /\ pc' = [pc EXCEPT ![c] = "sendfail"]
    /\ UNCHANGED <<pending, counter, cid, orig, chan, result, sent, rlPc, rlMsg, lock, nonClientVars>>

\* lines 116-117: the slot is removed and the error returned
Query_send_err_cleanup(c) ==
    /\ pc[c] = "sendfail"
    /\ RemoveOwn(c, "SendErr")
    /\ UNCHANGED <<counter, sent, rlPc, rlMsg, nonClientVars>>

\* lines 120-123: the channel yields the message, which is returned
Query_reply(c) ==
    /\ pc[c] = "wait"
    /\ chan[c] \notin {Empty, Closed}
    /\ Return(c, Ok(chan[c]), chan)
    /\ UNCHANGED <<pending, counter, sent, rlPc, rlMsg, lock, nonClientVars>>

\* line 120, 130: CLIENT_TIMEOUT elapses with nothing in the channel; the
\* timeout future, and the Receiver in it, are dropped
Query_timeout(c) ==
    /\ pc[c] = "wait"
    /\ chan[c] = Empty
    /\ pc' = [pc EXCEPT ![c] = "timedout"]
    /\ UNCHANGED <<pending, counter, cid, orig, chan, result, sent, rlPc, rlMsg, lock, nonClientVars>>

\* lines 131-132
Query_timeout_cleanup(c) ==
    /\ pc[c] = "timedout"
    /\ RemoveOwn(c, "TimedOut")
    /\ UNCHANGED <<counter, sent, rlPc, rlMsg, nonClientVars>>

\* lines 122, 124: the Sender was dropped without a message (RecvError)
Query_rx_closed(c) ==
    /\ pc[c] = "wait"
    /\ chan[c] = Closed
    /\ pc' = [pc EXCEPT ![c] = "rxclosed"]
    /\ UNCHANGED <<pending, counter, cid, orig, chan, result, sent, rlPc, rlMsg, lock, nonClientVars>>

\* lines 125-126
Query_rx_closed_cleanup(c) ==
    /\ pc[c] = "rxclosed"
    /\ RemoveOwn(c, "TimedOut")
    /\ UNCHANGED <<counter, sent, rlPc, rlMsg, nonClientVars>>

\* The future of query is dropped at a suspension point after the slot was
\* created (task cancelled): nothing of query runs any more.
Query_drop(c) ==
    /\ pc[c] \in {"send", "sendfail", "wait", "timedout", "rxclosed"}
    /\ pc' = [pc EXCEPT ![c] = "dropped"]
    /\ cid' = [cid EXCEPT ![c] = 0]
    /\ orig' = [orig EXCEPT ![c] = 0]
    /\ chan' = [chan EXCEPT ![c] = Empty]
    /\ lock' = lock \ {c}   \* a guard the future held is dropped with it
    /\ UNCHANGED <<pending, counter, result, sent, rlPc, rlMsg, nonClientVars>>

\* ------------------------------------- DnsClient::start_receive_loop (client.rs)
\* Datagrams that can arrive: an answer of the upstream to any packet it was
\* ever sent (late, duplicated, reordered), or a malformed datagram.
Arrivals == {UpstreamReply(p) : p \in sent} \cup BadDatagrams

\* Variant: the slot id is left in the delivered message.
RewriteIdKept(m, o_id) == m

\* line 86: `msg.header.id = o_id`
RewriteId(m, o_id) == [m EXCEPT !.id = o_id]

\* lines 81-83, 96-99: recv_from returns a datagram, which is decoded
Loop_recv ==
    /\ rlPc = "recv"
    /\ \E d \in Arrivals :
         LET r == MessageFromBytes(d)
         IN CASE r.kind = "ok" -> /\ rlMsg' = r.msg
                                  /\ rlPc' = "route"
              [] r.kind = "err" -> UNCHANGED <<rlMsg, rlPc>>
              [] OTHER -> /\ rlPc' = "dead"
                          /\ rlMsg' = rlMsg
    /\ UNCHANGED <<pending, counter, pc, cid, orig, chan, result, sent, lock, nonClientVars>>

\* lines 102-105: recv_from fails; the loop sleeps 100 ms
Loop_recv_err ==
    /\ rlPc = "recv"
    /\ rlPc' = "sleep"
    /\ UNCHANGED <<pending, counter, pc, cid, orig, chan, result, sent, rlMsg, lock, nonClientVars>>

Loop_wake ==
    /\ rlPc = "sleep"
    /\ rlPc' = "recv"
    /\ UNCHANGED <<pending, counter, pc, cid, orig, chan, result, sent, rlMsg, lock, nonClientVars>>

\* tx.send(Ok(m)) to the channel of call c: fails when the Receiver is gone
TxSend(ch, c, m) == IF RxAlive(c) THEN [ch EXCEPT ![c] = m] ELSE ch

\* Variant: the Option of remove is unwrapped, so an orphan ends the loop.
RouteUnwrap(p, ch, m) ==
    LET r == SlotsRemove(p, m.id)
    IN [pending |-> r.pending,
        chan |-> IF r.found # NoSlot
                 THEN TxSend(ch, r.found.tx, RewriteId(m, r.found.orig))
                 ELSE ch,
        next |-> IF r.found # NoSlot THEN "recv" ELSE "dead"]

\* Variant: the slot is looked up and left in the table.
RouteKeepSlot(p, ch, m) ==
    LET r == SlotsRemove(p, m.id)
    IN [pending |-> p,
        chan |-> IF r.found # NoSlot
                 THEN TxSend(ch, r.found.tx, RewriteId(m, r.found.orig))
                 ELSE ch,
        next |-> "recv"]

\* lines 85-94 under the lock: the slot of the message's id is removed and
\* the message, with its id rewritten, is sent on the slot's channel; when
\* there is no slot the message is an orphan, logged and dropped. Either
\* way the loop continues.
Route(p, ch, m) ==
    LET r == SlotsRemove(p, m.id)
    IN [pending |-> r.pending,
        chan |-> IF r.found # NoSlot
                 THEN TxSend(ch, r.found.tx, RewriteId(m, r.found.orig))
                 ELSE ch,
        next |-> "recv"]

Loop_route ==
    /\ rlPc = "route"
    /\ LET r == Route(pending, chan, rlMsg)
       IN /\ pending' = r.pending
          /\ chan' = r.chan
          /\ rlPc' = r.next
    /\ rlMsg' = NoMsg
    /\ Locked(ReceiveLoop)
    /\ UNCHANGED <<counter, pc, cid, orig, result, sent, nonClientVars>>

\* ----------------------------------------------- Channel.slots (the Mutex)
\* Task w stands at one of its `slots.lock().await` statements.
AtLock(w) ==
    IF w = ReceiveLoop
    THEN rlPc = "route"
    ELSE \/ pc[w] \in {"sendfail", "timedout", "rxclosed"}
         \/ pc[w] = "idle" /\ \A b \in Calls : b < w => pc[b] # "idle"

\* Variant: the lock is granted whoever holds it.
Lock_grant_shared(w) ==
    /\ AtLock(w)
    /\ lock' = lock \cup {w}
    /\ UNCHANGED <<pending, counter, pc, cid, orig, chan, result, sent, rlPc, rlMsg, nonClientVars>>

\* lines 85, 113, 116, 125, 131: `lock().await` completes for task w, which
\* now holds the guard and has not yet run the rest of its statement; the
\* other tasks run on (multi-threaded runtime).
Lock_grant(w) ==
    /\ AtLock(w)
    /\ lock = {}
    /\ lock' = {w}
    /\ UNCHANGED <<pending, counter, pc, cid, orig, chan, result, sent, rlPc, rlMsg, nonClientVars>>

\* ------------------------------------------------- Slots used on its own
\* Slots::create and Slots::remove called directly on the table, as a unit
\* test would (no query call runs; t names the channel made for the entry).
Slots_create ==
    /\ \E o \in OrigIds, t \in Calls :
         LET r == SlotsCreate(pending, counter, o, t)
         IN /\ pending' = r.pending
            /\ counter' = r.counter
            /\ last' = [op |-> "create", ok |-> r.ok, val |-> r.id]
    /\ tick' = 1 - tick
    /\ UNCHANGED <<callVars, flags, buf, parsed, got, codecVars, procVars>>

Slots_remove ==
    /\ \E i \in Ids :
         LET r == SlotsRemove(pending, i)
         IN /\ pending' = r.pending
            /\ last' = [op |-> "remove", ok |-> r.found # NoSlot, val |-> i]
    /\ tick' = 1 - tick
    /\ UNCHANGED <<counter, callVars, flags, buf, parsed, got, codecVars, procVars>>

\* ------------------------------------------------------------ specifications
Next ==
    \/ \E c \in Calls : Query_create(c)
    \/ \E c \in Calls : Query_send(c)
    \/ \E c \in Calls : Query_send_err(c)
    \/ \E c \in Calls : Query_send_err_cleanup(c)
    \/ \E c \in Calls : Query_reply(c)
    \/ \E c \in Calls : Query_timeout(c)
    \/ \E c \in Calls : Query_timeout_cleanup(c)
    \/ \E c \in Calls : Query_rx_closed(c)
    \/ \E c \in Calls : Query_rx_closed_cleanup(c)
    \/ Loop_recv
    \/ Loop_recv_err
    \/ Loop_wake
    \/ Loop_route

Spec == Init /\ [][Next]_vars

\* The same with task cancellation.
NextCancel == Next \/ \E c \in Calls : Query_drop(c)

SpecCancel == Init /\ [][NextCancel]_vars

\* The same with the lock's grant as a step of its own.
NextLock == Next \/ \E w \in Calls \cup {ReceiveLoop} : Lock_grant(w)

SpecLock == Init /\ [][NextLock]_vars

\* Slots alone.
NextSlots == Slots_create \/ Slots_remove

SpecSlots == Init /\ [][NextSlots]_vars

\* ------------------------------------------------------- Flags (protocol.rs)
Bytes == 0 .. 255

\* u8 `&`, bit by bit
RECURSIVE BitAnd(_, _)
BitAnd(a, b) ==
    IF a = 0 \/ b = 0 THEN 0
    ELSE (a % 2) * (b % 2) + 2 * BitAnd(a \div 2, b \div 2)

\* u8 `|`, bit by bit
RECURSIVE BitOr(_, _)
BitOr(a, b) ==
    IF a = 0 THEN b
    ELSE IF b = 0 THEN a
    ELSE (IF a % 2 = 1 \/ b % 2 = 1 THEN 1 ELSE 0) + 2 * BitOr(a \div 2, b \div 2)

\* u8 `<<` and `>>`
Shl(a, n) == (a * (2 ^ n)) % 256
Shr(a, n) == a \div (2 ^ n)

\* Flags::from_bytes
FlagsFromBytes(left, right) == <<left, right>>

\* the accessors
Qr(f) == Shr(f[1], 7)
Opcode(f) == BitAnd(Shr(f[1], 3), 15)
Aa(f) == BitAnd(Shr(f[1], 2), 1)
Tc(f) == BitAnd(Shr(f[1], 1), 1)
Rd(f) == BitAnd(f[1], 1)
Ra(f) == Shr(f[2], 7)
Z(f) == BitAnd(Shr(f[2], 6), 1)
Ad(f) == BitAnd(Shr(f[2], 5), 1)
Cd(f) == BitAnd(Shr(f[2], 4), 1)
Rcode(f) == BitAnd(f[2], 15)

\* Variant: the QR bit is replaced and the other bits of the byte are kept.
SetQrMasked(f, qr) == <<BitOr(BitAnd(f[1], 127), Shl(qr, 7)), f[2]>>

\* Flags::set_qr (qr < 2 is asserted): `self.0[0] &= qr << 7`
SetQr(f, qr) == <<BitAnd(f[1], Shl(qr, 7)), f[2]>>

\* set_qr called on a Flags value
Flags_set_qr ==
    /\ \E qr \in {0, 1} :
         /\ flags' = SetQr(flags, qr)
         /\ last' = [op |-> "set_qr", ok |-> TRUE, val |-> qr]
    /\ tick' = 1 - tick
    /\ UNCHANGED <<clientVars, buf, parsed, got, codecVars, procVars>>

\* Flags alone, from every two-byte value.
InitFlags ==
    /\ ClientInit
    /\ UnitInit
    /\ flags \in {FlagsFromBytes(l, r) : l \in Bytes, r \in Bytes}
    /\ ProcInit

NextFlags == Flags_set_qr

SpecFlags == InitFlags /\ [][NextFlags]_vars

\* --------------------------------------------------- DnsCache (cache.rs)
\* The max TTL seconds allowed by the cache.
MAX_TTL_SECONDS == 1800

\* ResourceRecord, abstracted to its owner name (a question) and its TTL
RR(q, ttl) == [name |-> q, ttl |-> ttl]

Min(S) == CHOOSE x \in S : \A y \in S : x <= y

\* Variant: the smallest TTL is used without the ceiling.
MinTtlUncapped(rr) ==
    IF Len(rr) = 0 THEN -1
    ELSE Min({rr[i].ttl : i \in 1 .. Len(rr)}) * 1000

\* min_ttl: None (-1) for no record, else the smallest TTL, capped, in ms
MinTtl(rr) ==
    IF Len(rr) = 0 THEN -1
    ELSE LET k == Min({rr[i].ttl : i \in 1 .. Len(rr)})
         IN (IF k > MAX_TTL_SECONDS THEN MAX_TTL_SECONDS ELSE k) * 1000

\* Variant: an entry is still found at the instant its TTL runs out.
IsLiveInclusive(e, t) == e # NoEntry /\ (t - e.inserted_at) * 1000 <= e.ttl_ms

\* the container's get: an entry is found until its own TTL has run out
IsLive(e, t) == e # NoEntry /\ (t - e.inserted_at) * 1000 < e.ttl_ms

\* Variant: the answers are returned as they were stored.
DecayedNot(e, t) == e.answers

\* the closure of DnsCache::get: a copy of the answers, TTLs less the
\* elapsed seconds, floored at 0
Decayed(e, t) ==
    LET elapsed == t - e.inserted_at
    IN [i \in 1 .. Len(e.answers) |->
          [e.answers[i] EXCEPT !.ttl = IF elapsed < @ THEN @ - elapsed ELSE 0]]

\* DnsCache::get: None ("miss") or Some(answers)
CacheGet(ch, q, t) ==
    IF IsLive(ch[q], t)
    THEN [hit |-> TRUE, answers |-> Decayed(ch[q], t)]
    ELSE [hit |-> FALSE, answers |-> <<>>]

\* DnsCache::normalise_ttl (set does not call it)
NormaliseTtl(answers) ==
    [i \in 1 .. Len(answers) |->
        [answers[i] EXCEPT !.ttl = IF @ > MAX_TTL_SECONDS THEN MAX_TTL_SECONDS ELSE @]]

\* Variant: set stores the records after normalise_ttl.
CacheSetNormalised(ch, q, answers, t) ==
    LET m == MinTtl(answers)
    IN IF m = -1 THEN [panic |-> TRUE, cache |-> ch]
       ELSE IF m > 0
            THEN [panic |-> FALSE,
                  cache |-> [ch EXCEPT ![q] = CacheEntry(NormaliseTtl(answers), t, m)]]
            ELSE [panic |-> FALSE, cache |-> ch]

\* Variant: records with nothing left to live evict the entry.
CacheSetEvictZero(ch, q, answers, t) ==
    LET m == MinTtl(answers)
    IN IF m = -1 THEN [panic |-> TRUE, cache |-> ch]
       ELSE IF m > 0
            THEN [panic |-> FALSE,
                  cache |-> [ch EXCEPT ![q] = CacheEntry(answers, t, m)]]
            ELSE [panic |-> FALSE, cache |-> [ch EXCEPT ![q] = NoEntry]]

\* Variant: an empty record set is a no-op.
CacheSetEmptyNoop(ch, q, answers, t) ==
    LET m == MinTtl(answers)
    IN IF m > 0
       THEN [panic |-> FALSE, cache |-> [ch EXCEPT ![q] = CacheEntry(answers, t, m)]]
       ELSE [panic |-> FALSE, cache |-> ch]

\* DnsCache::set: panics on an empty record set (min_ttl(..).unwrap()),
\* stores when the minimum TTL is positive, else leaves the cache as it is
CacheSet(ch, q, answers, t) ==
    LET m == MinTtl(answers)
    IN IF m = -1 THEN [panic |-> TRUE, cache |-> ch]
       ELSE IF m > 0
            THEN [panic |-> FALSE,
                  cache |-> [ch EXCEPT ![q] = CacheEntry(answers, t, m)]]
            ELSE [panic |-> FALSE, cache |-> ch]

\* ------------------------------------------------- Processor (server.rs)
\* Flag bytes of the client queries (those of the captured query) and of the
\* upstream's responses (those of the captured response).
QueryFlags == <<1, 32>>
ResponseFlags == <<129, 128>>

\* TTLs of the records the upstream answers with.
UpstreamTtls == {0, 2}

\* The client queries: any original id, one question or none.
InboundQueries ==
    {PMsg(i, QueryFlags, q, 0, <<>>) : i \in OrigIds, q \in {0} \cup Questions}

\* Message::to_udp_packet of a well-formed message
ToUdpPacket(m) == Datagram(TRUE, IF m.q = 0 THEN 0 ELSE 1, "ok", "ok", m)

\* What the upstream may answer to request m: the request's id and
\* question, the response flags, no record or one record.
UpstreamAnswers(m) ==
    {PMsg(m.id, ResponseFlags, m.q, Len(a), a) :
        a \in {<<>>} \cup {<<RR(m.q, ttl)>> : ttl \in UpstreamTtls}}

\* A datagram on its way to the upstream or back, told apart from others of
\* the same bytes by the number n of the task whose send_to put the request
\* on the wire (nothing in the resolver reads n).
Numbered(x, n) == [n |-> n] @@ x

\* Malformed client datagrams: those of BadDatagrams, as the processor's
\* socket receives them.
BadQueries == {[d EXCEPT !.msg = NoPMsg] : d \in BadDatagrams}

\* Variant: the query is handled inside run_loop, so no datagram is received
\* while a query waits for the upstream.
Srv_recv_serial(t) ==
    /\ srvPc = "recv"
    /\ tpc[t] = "none"
    /\ \A u \in Tasks : u < t => tpc[u] \notin {"none", "start", "up_recv"}
    /\ \E m \in InboundQueries :
         LET r == MessageFromBytes(ToUdpPacket(m))
         IN /\ r.kind = "ok"
            /\ tin' = [tin EXCEPT ![t] = ToUdpPacket(m)]
            /\ tq' = [tq EXCEPT ![t] = r.msg]
            /\ tpc' = [tpc EXCEPT ![t] = "start"]
    /\ UNCHANGED <<clientVars, unitVars, now, cache, srvPc, tup, upq, usock, outbox>>

\* Processor::run_loop and handle_packet, lines 81-101: a datagram arrives
\* and decodes, and the query is handed to a new task
Srv_recv(t) ==
    /\ srvPc = "recv"
    /\ tpc[t] = "none"
    /\ \A u \in Tasks : u < t => tpc[u] # "none"   \* datagrams are numbered as they arrive
    /\ \E m \in InboundQueries :
         LET r == MessageFromBytes(ToUdpPacket(m))
         IN /\ r.kind = "ok"
            /\ tin' = [tin EXCEPT ![t] = ToUdpPacket(m)]
            /\ tq' = [tq EXCEPT ![t] = r.msg]
            /\ tpc' = [tpc EXCEPT ![t] = "start"]
    /\ UNCHANGED <<clientVars, unitVars, now, cache, srvPc, tup, upq, usock, outbox>>

\* Processor::run_loop and handle_packet, lines 81-105: a datagram arrives
\* that does not decode: an Err is logged and no task is spawned; a panic in
\* from_bytes unwinds run_loop and main, which ends the process
Srv_recv_bad(t) ==
    /\ srvPc = "recv"
    /\ tpc[t] = "none"
    /\ \A u \in Tasks : u < t => tpc[u] # "none"
    /\ \E d \in BadQueries :
         LET r == MessageFromBytes(d)
         IN /\ tin' = [tin EXCEPT ![t] = d]
            /\ IF r.kind = "panic"
               THEN /\ srvPc' = "dead"
                    \* the process is gone: its tasks, its cache and its sockets
                    /\ tpc' = [u \in Tasks |->
                                 IF u = t THEN "dropped"
                                 ELSE IF tpc[u] \in {"start", "up_recv"} THEN "killed"
                                 ELSE tpc[u]]
                    /\ cache' = CacheNew
                    /\ upq' = {}
                    /\ usock' = {}
               ELSE /\ tpc' = [tpc EXCEPT ![t] = "dropped"]
                    /\ UNCHANGED <<srvPc, cache, upq, usock>>
    /\ UNCHANGED <<clientVars, unitVars, now, tq, tup, outbox>>

\* Variant: the answers are replaced and the header's count is left as it was.
HitResponseCountKept(query, answers) ==
    [query EXCEPT !.flags = SetQr(@, 1),
                  !.answers = answers]

\* Variant: the response is the query with QR set and the other bits kept.
HitResponseQrSet(query, answers) ==
    [query EXCEPT !.flags = SetQrMasked(@, 1),
                  !.ancount = Len(answers),
                  !.answers = answers]

\* lines 117-120: the response of the cache-hit path
HitResponse(query, answers) ==
    [query EXCEPT !.flags = SetQr(@, 1),
                  !.ancount = Len(answers),
                  !.answers = answers]

\* handle_query, lines 114-123: one question and a cache hit; the response
\* is built and sent to the client (nothing shared is read after the get)
Handle_hit(t) ==
    /\ srvPc # "dead"
    /\ tpc[t] = "start"
    /\ tq[t].q # 0
    /\ LET g == CacheGet(cache, tq[t].q, now)
       IN /\ g.hit
          /\ outbox' = outbox \cup
                {[to |-> t, via |-> "cache", msg |-> HitResponse(tq[t], g.answers)]}
    /\ tpc' = [tpc EXCEPT ![t] = "done"]
    /\ UNCHANGED <<clientVars, unitVars, now, cache, srvPc, tin, tq, tup, upq, usock>>

\* handle_query, lines 114-115, 124-125, 131-132 and the processor's
\* DnsClient::query, lines 25-26: no question or a cache miss; the query is
\* sent upstream as it is
Handle_forward(t) ==
    /\ srvPc # "dead"
    /\ tpc[t] = "start"
    /\ tq[t].q # 0 => ~CacheGet(cache, tq[t].q, now).hit
    /\ upq' = upq \cup {Numbered(tq[t], t)}
    /\ tup' = [tup EXCEPT ![t] = TRUE]
    /\ tpc' = [tpc EXCEPT ![t] = "up_recv"]
    /\ UNCHANGED <<clientVars, unitVars, now, cache, srvPc, tin, tq, usock, outbox>>

\* Variant: a query without a question empties the cache.
CacheAfterQueryFlush(ch, query, r, t) ==
    IF r.kind = "ok" /\ query.q # 0
    THEN CacheSet(ch, query.q, r.msg.answers, t)
    ELSE [panic |-> FALSE, cache |-> IF query.q = 0 THEN CacheNew ELSE ch]

\* handle_query, lines 114, 125-126 and 131-132: the cache after the
\* upstream query of `query` returned r; set is called only with one
\* question and an Ok result
CacheAfterQuery(ch, query, r, t) ==
    IF r.kind = "ok" /\ query.q # 0
    THEN CacheSet(ch, query.q, r.msg.answers, t)
    ELSE [panic |-> FALSE, cache |-> ch]

\* the processor's DnsClient::query, lines 27-29, then handle_query, lines
\* 125-129 and 132-135: the next datagram on the shared socket is taken and
\* decoded (an error is unwrapped: the task panics); with one question the
\* answers are put in the cache (an empty record set panics in set); the
\* message is sent to the client
Handle_reply(t) ==
    /\ srvPc # "dead"
    /\ tpc[t] = "up_recv"
    /\ \E d \in usock :
         LET r == MessageFromBytes(d)
             c == CacheAfterQuery(cache, tq[t], r, now)
         IN /\ usock' = usock \ {d}
            /\ cache' = c.cache
            /\ IF r.kind = "ok" /\ ~c.panic
               THEN /\ outbox' = outbox \cup {[to |-> t, via |-> "upstream", msg |-> r.msg]}
                    /\ tpc' = [tpc EXCEPT ![t] = "done"]
               ELSE /\ outbox' = outbox
                    /\ tpc' = [tpc EXCEPT ![t] = "panicked"]
    /\ UNCHANGED <<clientVars, unitVars, now, srvPc, tin, tq, tup, upq>>

\* the recv of the processor's DnsClient::query fails and the error is
\* unwrapped (lines 125, 132)
Handle_up_err(t) ==
    /\ srvPc # "dead"
    /\ tpc[t] = "up_recv"
    /\ tpc' = [tpc EXCEPT ![t] = "panicked"]
    /\ UNCHANGED <<clientVars, unitVars, now, cache, srvPc, tin, tq, tup, upq, usock, outbox>>

\* The upstream answers a request it holds, with a datagram that decodes
\* or with one whose record is truncated.
Upstream_answer ==
    /\ srvPc # "dead"
    /\ \E m \in upq :
         /\ upq' = upq \ {m}
         /\ \E d \in {ToUdpPacket(a) : a \in UpstreamAnswers(m)}
                     \cup {Datagram(TRUE, 0, "ok", "trunc", NoPMsg)} :
              usock' = usock \cup {Numbered(d, m.n)}
    /\ UNCHANGED <<clientVars, unitVars, now, cache, srvPc, tpc, tin, tq, tup, outbox>>

\* A second of wall-clock time passes (the clock is read only as the time
\* elapsed since an insertion, so it is let run once the cache holds an entry).
Tick ==
    /\ srvPc # "dead"
    /\ now < MaxClock
    /\ \E q \in Questions : cache[q] # NoEntry
    /\ now' = now + 1
    /\ UNCHANGED <<clientVars, unitVars, cache, srvPc, tpc, tin, tq, tup, upq, usock, outbox>>

NextProc ==
    \/ \E t \in Tasks : Srv_recv(t)
    \/ \E t \in Tasks : Srv_recv_bad(t)
    \/ \E t \in Tasks : Handle_hit(t)
    \/ \E t \in Tasks : Handle_forward(t)
    \/ \E t \in Tasks : Handle_reply(t)
    \/ \E t \in Tasks : Handle_up_err(t)
    \/ Upstream_answer
    \/ Tick

SpecProc == Init /\ [][NextProc]_vars

\* The same, where a handle_query task that can take a step takes it (the
\* runtime polls a spawned task that is ready); nothing is assumed of the
\* clients, of the upstream or of the network.
SpecProcLive ==
    /\ SpecProc
    /\ \A t \in Tasks :
         /\ WF_vars(Handle_hit(t))
         /\ WF_vars(Handle_forward(t))
         /\ WF_vars(Handle_reply(t))

\* -------------------------------------- Message::from_bytes used on its own
\* Largest question count a header is given (u16 in the code).
MaxQdcount == 3

\* How a name or a record section reads.
ReadOutcomes == {"ok", "trunc", "badutf8"}

\* The messages a buffer with qd questions carries when the rest is well formed.
MessagesWith(qd) ==
    IF qd = 0 THEN {PMsg(i, QueryFlags, 0, 0, <<>>) : i \in OrigIds}
    ELSE IF qd = 1 THEN {PMsg(i, QueryFlags, q, 0, <<>>) : i \in OrigIds, q \in Questions}
    ELSE {NoPMsg}

\* The buffers given to from_bytes.
ParseInputs ==
    UNION {{Datagram(l, qd, qn, rr, m) :
               l \in BOOLEAN, qn \in ReadOutcomes, rr \in ReadOutcomes, m \in MessagesWith(qd)} :
           qd \in 0 .. MaxQdcount}

\* Message::from_bytes called on a buffer
Message_from_bytes ==
    /\ \E d \in ParseInputs :
         LET r == MessageFromBytes(d)
         IN /\ buf' = d
            /\ parsed' = r
            /\ last' = [op |-> "from_bytes", ok |-> r.kind = "ok", val |-> d.qdcount]
    /\ tick' = 1 - tick
    /\ UNCHANGED <<clientVars, flags, got, codecVars, procVars>>

NextParse == Message_from_bytes

SpecParse == Init /\ [][NextParse]_vars

\* ------------------------------------------------ DnsCache used on its own
\* TTLs of the records given to set: none left, short, longer, beyond the
\* ceiling.
CacheTtls == {0, 1, 3, 999999}

\* The record sets given to set for question q: none, one record, or a
\* short-lived record with one beyond the ceiling.
CacheInputs(q) ==
    {<<>>} \cup {<<RR(q, a)>> : a \in CacheTtls \ {3}}
           \cup {<<RR(q, 3), RR(q, 999999)>>}

\* DnsCache::set called on the cache with question q and the given records
\* (a panic leaves the cache as it was); `last` keeps the records given
Cache_set ==
    /\ \E q \in Questions : \E answers \in CacheInputs(q) :
         LET r == CacheSet(cache, q, answers, now)
         IN /\ cache' = r.cache
            /\ last' = [op |-> "set", ok |-> ~r.panic, val |-> q, rr |-> answers]
    /\ tick' = 1 - tick
    /\ UNCHANGED <<clientVars, flags, buf, parsed, got, codecVars, now, srvPc, tin, tpc, tq, tup,
                   upq, usock, outbox>>

\* Variant: get writes the adjusted TTLs back into the stored entry.
Cache_get_writeback ==
    /\ \E q \in Questions :
         LET g == CacheGet(cache, q, now)
         IN /\ got' = g
            /\ cache' = IF g.hit THEN [cache EXCEPT ![q].answers = g.answers] ELSE cache
            /\ last' = [op |-> "get", ok |-> g.hit, val |-> q]
    /\ tick' = 1 - tick
    /\ UNCHANGED <<clientVars, flags, buf, parsed, codecVars, now, srvPc, tin, tpc, tq, tup,
                   upq, usock, outbox>>

\* DnsCache::get called on the cache
Cache_get ==
    /\ \E q \in Questions :
         LET g == CacheGet(cache, q, now)
         IN /\ got' = g
            /\ last' = [op |-> "get", ok |-> g.hit, val |-> q]
    /\ tick' = 1 - tick
    /\ UNCHANGED <<clientVars, flags, buf, parsed, codecVars, now, cache, srvPc, tin, tpc, tq, tup,
                   upq, usock, outbox>>

\* The caller sleeps for all but a second of the ceiling, once.
Sleep ==
    /\ now <= MaxClock
    /\ \E q \in Questions : cache[q] # NoEntry
    /\ now' = now + MAX_TTL_SECONDS - 1
    /\ UNCHANGED <<clientVars, unitVars, cache, srvPc, tin, tpc, tq, tup, upq, usock, outbox>>

NextCache == Cache_set \/ Cache_get \/ Tick \/ Sleep

SpecCache == Init /\ [][NextCache]_vars

\* ------------------------------------------- the wire format (protocol.rs)
\* Names are strings: sequences of characters, here the dot and two letters.
DOT == 46
LetterA == <<97>>
LetterB == <<98>>

\* Nested calls of read_labels_to_str the stack has room for.
StackDepth == 3

\* Bytes are read at 0-based offsets.
At(b, pos) == b[pos + 1]
HasBytes(b, pos, n) == pos + n <= Len(b)
\* u16::from_be_bytes, u32::from_be_bytes
U16At(b, pos) == At(b, pos) * 256 + At(b, pos + 1)
U32At(b, pos) == U16At(b, pos) * 65536 + U16At(b, pos + 2)
\* u16::to_be_bytes, u32::to_be_bytes
U16Bytes(n) == <<(n \div 256) % 256, n % 256>>
U32Bytes(n) == U16Bytes(n \div 65536) \o U16Bytes(n % 65536)

\* What the readers return: Ok(value) with the cursor after it, an Err, a
\* panic, or the stack exhausted.
ReadOk(v, pos) == [kind |-> "ok", val |-> v, pos |-> pos]
ReadFail(k) == [kind |-> k, val |-> <<>>, pos |-> 0]

\* read_exact of n bytes
ReadExact(b, pos, n) ==
    IF HasBytes(b, pos, n) THEN ReadOk(SubSeq(b, pos + 1, pos + n), pos + n)
    ELSE ReadFail("err")

\* Variant: one high bit is enough for a pointer.
LabelKindReadOneBit(b, pos) ==
    IF ~HasBytes(b, pos, 1) THEN [kind |-> "err", val |-> 0, pos |-> pos]
    ELSE LET b0 == At(b, pos)
         IN IF b0 = 0 THEN [kind |-> "absent", val |-> 0, pos |-> pos + 1]
            ELSE IF BitAnd(b0, 128) = 128
            THEN IF ~HasBytes(b, pos + 1, 1) THEN [kind |-> "err", val |-> 0, pos |-> pos]
                 ELSE [kind |-> "pointer",
                       val |-> BitAnd(b0, 63) * 256 + At(b, pos + 1),
                       pos |-> pos + 2]
            ELSE [kind |-> "data", val |-> b0, pos |-> pos + 1]

\* LabelKind::read
LabelKindRead(b, pos) ==
    IF ~HasBytes(b, pos, 1) THEN [kind |-> "err", val |-> 0, pos |-> pos]
    ELSE LET b0 == At(b, pos)
         IN IF b0 = 0 THEN [kind |-> "absent", val |-> 0, pos |-> pos + 1]
            ELSE IF BitAnd(b0, 192) = 192
            THEN IF ~HasBytes(b, pos + 1, 1) THEN [kind |-> "err", val |-> 0, pos |-> pos]
                 ELSE [kind |-> "pointer",
                       val |-> BitAnd(b0, 63) * 256 + At(b, pos + 1),
                       pos |-> pos + 2]
            ELSE [kind |-> "data", val |-> b0, pos |-> pos + 1]

\* std::str::from_utf8 on a label; of the bytes used here only those below
\* 128 are characters
IsUtf8(label) == \A i \in 1 .. Len(label) : label[i] < 128

\* Variant: the cursor is left where the pointed-to name ended.
RECURSIVE ReadLabelsToStrNoSeekBack(_, _, _, _)
ReadLabelsToStrNoSeekBack(b, pos, qname, depth) ==
    IF depth > StackDepth THEN ReadFail("overflow")
    ELSE LET k == LabelKindRead(b, pos)
         IN IF k.kind = "err" THEN ReadFail("err")
            ELSE IF k.kind = "absent" THEN ReadOk(qname, k.pos)
            ELSE IF k.kind = "data"
            THEN LET l == ReadExact(b, k.pos, k.val)
                 IN IF l.kind # "ok" THEN ReadFail("err")
                    ELSE IF ~IsUtf8(l.val) THEN ReadFail("panic")
                    ELSE ReadLabelsToStrNoSeekBack(b, l.pos,
                            (IF qname # <<>> THEN qname \o <<DOT>> ELSE qname) \o l.val,
                            depth)
            ELSE LET r == ReadLabelsToStrNoSeekBack(b, k.val, <<>>, depth + 1)
                 IN IF r.kind # "ok" THEN ReadFail(r.kind)
                    ELSE ReadOk(qname \o r.val, r.pos)

\* read_labels_to_str from offset pos, qname being what the loop has read so
\* far and depth the number of calls on the stack
RECURSIVE ReadLabelsToStr(_, _, _, _)
ReadLabelsToStr(b, pos, qname, depth) ==
    IF depth > StackDepth THEN ReadFail("overflow")
    ELSE LET k == LabelKindRead(b, pos)
         IN IF k.kind = "err" THEN ReadFail("err")
            ELSE IF k.kind = "absent" THEN ReadOk(qname, k.pos)
            ELSE IF k.kind = "data"
            THEN LET l == ReadExact(b, k.pos, k.val)
                 IN IF l.kind # "ok" THEN ReadFail("err")
                    ELSE IF ~IsUtf8(l.val) THEN ReadFail("panic")
                    ELSE ReadLabelsToStr(b, l.pos,
                            (IF qname # <<>> THEN qname \o <<DOT>> ELSE qname) \o l.val,
                            depth)
            ELSE LET r == ReadLabelsToStr(b, k.val, <<>>, depth + 1)
                 IN IF r.kind # "ok" THEN ReadFail(r.kind)
                    ELSE ReadOk(qname \o r.val, k.pos)

\* Question::read
Question(n, t, c) == [qname |-> n, qtype |-> t, qclass |-> c]
QuestionRead(b, pos) ==
    LET n == ReadLabelsToStr(b, pos, <<>>, 1)
    IN IF n.kind # "ok" THEN ReadFail(n.kind)
       ELSE IF ~HasBytes(b, n.pos, 4) THEN ReadFail("err")
       ELSE ReadOk(Question(n.val, U16At(b, n.pos), U16At(b, n.pos + 2)), n.pos + 4)

\* ResourceRecord::read
Record(n, t, c, ttl, len, data) ==
    [name |-> n, rtype |-> t, rclass |-> c, ttl |-> ttl, rdlength |-> len, rdata |-> data]
RecordRead(b, pos) ==
    LET n == ReadLabelsToStr(b, pos, <<>>, 1)
    IN IF n.kind # "ok" THEN ReadFail(n.kind)
       ELSE IF ~HasBytes(b, n.pos, 10) THEN ReadFail("err")
       ELSE LET len == U16At(b, n.pos + 8)
                d == ReadExact(b, n.pos + 10, len)
            IN IF d.kind # "ok" THEN ReadFail("err")
               ELSE ReadOk(Record(n.val, U16At(b, n.pos), U16At(b, n.pos + 2),
                                  U32At(b, n.pos + 4), len, d.val), d.pos)

\* ResourceRecord::read_all
RECURSIVE ReadAll(_, _, _, _)
ReadAll(b, pos, count, records) ==
    IF count = 0 THEN ReadOk(records, pos)
    ELSE LET r == RecordRead(b, pos)
         IN IF r.kind # "ok" THEN ReadFail(r.kind)
            ELSE ReadAll(b, r.pos, count - 1, Append(records, r.val))

\* `let x = v;`: Bind({e : x \in {v}}) is e with x bound to the value of v,
\* which is computed once however often e uses x.
Bind(S) == CHOOSE e \in S : TRUE

\* Message::from_bytes on the bytes themselves: Header::from_bytes indexes
\* the first 12 bytes; the question is read with expect(); the records with `?`
MessageFromWire(b) ==
    IF Len(b) < 12 THEN [kind |-> "panic", msg |-> NoWireMsg]
    ELSE LET qd == U16At(b, 4)
             an == U16At(b, 6)
             ns == U16At(b, 8)
             ar == U16At(b, 10)
         IN Bind({Bind({Bind({Bind({
                IF ads.kind # "ok" THEN [kind |-> ads.kind, msg |-> NoWireMsg]
                ELSE [kind |-> "ok",
                      msg |-> WireMsg(U16At(b, 0), FlagsFromBytes(At(b, 2), At(b, 3)),
                                      qd, an, ns, ar, q.val, as.val, aus.val, ads.val)]
              : ads \in {IF aus.kind = "ok" THEN ReadAll(b, aus.pos, ar, <<>>)
                         ELSE ReadFail(aus.kind)}})
              : aus \in {IF as.kind = "ok" THEN ReadAll(b, as.pos, ns, <<>>)
                         ELSE ReadFail(as.kind)}})
              : as \in {IF q.kind = "ok" THEN ReadAll(b, q.pos, an, <<>>)
                        ELSE ReadFail(q.kind)}})
              : q \in {IF qd = 0 THEN ReadOk(<<>>, 12)
                       ELSE IF qd = 1
                       THEN LET r == QuestionRead(b, 12)
                            IN IF r.kind = "ok" THEN ReadOk(<<r.val>>, r.pos)
                               ELSE IF r.kind = "err" THEN ReadFail("panic")
                               ELSE ReadFail(r.kind)
                       ELSE ReadFail("err")}})

\* MessageWriter: the bytes written and label_tally (name -> offset); pos is
\* the number of bytes written
MessageWriterNew == [out |-> <<>>, tally |-> {}]
WriteAll(wr, bytes) == [wr EXCEPT !.out = @ \o bytes]

\* str::split_once("."): the index of the first dot, 0 for None
IndexOfDot(name) ==
    IF \E i \in 1 .. Len(name) : name[i] = DOT
    THEN Min({i \in 1 .. Len(name) : name[i] = DOT})
    ELSE 0

\* Variant: a suffix is recorded at the offset of its first character, one
\* byte after its length byte.
RECURSIVE WriteNameLate(_, _)
WriteNameLate(wr, name) ==
    IF name = <<>> THEN WriteAll(wr, <<0>>)
    ELSE IF \E e \in wr.tally : e.name = name
    THEN LET e == CHOOSE e \in wr.tally : e.name = name
         IN WriteAll(wr, U16Bytes(BitOr(e.pos, 49152)))
    ELSE LET w1 == [wr EXCEPT !.tally = @ \cup {[name |-> name, pos |-> Len(wr.out) + 1]}]
             d == IndexOfDot(name)
         IN IF d = 0
            THEN WriteAll(w1, <<Len(name) % 256>> \o name \o <<0>>)
            ELSE LET left == SubSeq(name, 1, d - 1)
                     rest == SubSeq(name, d + 1, Len(name))
                 IN WriteNameLate(WriteAll(w1, <<Len(left) % 256>> \o left), rest)

\* MessageWriter::write_name
RECURSIVE WriteName(_, _)
WriteName(wr, name) ==
    IF name = <<>> THEN WriteAll(wr, <<0>>)
    ELSE IF \E e \in wr.tally : e.name = name
    THEN LET e == CHOOSE e \in wr.tally : e.name = name
         IN WriteAll(wr, U16Bytes(BitOr(e.pos, 49152)))
    ELSE LET w1 == [wr EXCEPT !.tally = @ \cup {[name |-> name, pos |-> Len(wr.out) % 65536]}]
             d == IndexOfDot(name)
         IN IF d = 0
            THEN WriteAll(w1, <<Len(name) % 256>> \o name \o <<0>>)
            ELSE LET left == SubSeq(name, 1, d - 1)
                     rest == SubSeq(name, d + 1, Len(name))
                 IN WriteName(WriteAll(w1, <<Len(left) % 256>> \o left), rest)

\* Question::write
QuestionWrite(wr, q) ==
    WriteAll(WriteName(wr, q.qname), U16Bytes(q.qtype) \o U16Bytes(q.qclass))

\* ResourceRecord::write
RecordWrite(wr, r) ==
    WriteAll(WriteName(wr, r.name),
             U16Bytes(r.rtype) \o U16Bytes(r.rclass) \o U32Bytes(r.ttl)
                \o U16Bytes(r.rdlength) \o r.rdata)

\* the `for` loops of Message::write, from element i on
RECURSIVE QuestionsWrite(_, _, _)
QuestionsWrite(wr, qs, i) ==
    IF i > Len(qs) THEN wr ELSE QuestionsWrite(QuestionWrite(wr, qs[i]), qs, i + 1)
RECURSIVE RecordsWrite(_, _, _)
RecordsWrite(wr, rs, i) ==
    IF i > Len(rs) THEN wr ELSE RecordsWrite(RecordWrite(wr, rs[i]), rs, i + 1)

\* Header::write
HeaderWrite(wr, m) ==
    WriteAll(wr, U16Bytes(m.id) \o m.flags \o U16Bytes(m.qdcount) \o U16Bytes(m.ancount)
                    \o U16Bytes(m.nscount) \o U16Bytes(m.arcount))

\* Message::to_udp_packet (Message::write into a new MessageWriter)
MessageToWire(m) ==
    RecordsWrite(
        RecordsWrite(
            RecordsWrite(
                QuestionsWrite(HeaderWrite(MessageWriterNew, m), m.questions, 1),
                m.answers, 1),
            m.authorities, 1),
        m.additionals, 1).out

\* ------------------------------------------------ the codec used on its own
\* The two captured messages of the tests: a query with an OPT record, and a
\* response whose answer name is a pointer to offset 12.
SampleQuery ==
    <<112, 27, 1, 32, 0, 1, 0, 0, 0, 0, 0, 1, 3, 119, 119, 119, 6, 103, 111, 111, 103, 108,
      101, 3, 99, 111, 109, 0, 0, 15, 0, 3, 0, 0, 41, 16, 0, 0, 0, 0, 0, 0, 0>>
SampleResponse ==
    <<15, 245, 129, 128, 0, 1, 0, 1, 0, 0, 0, 1, 3, 119, 119, 119, 6, 103, 111, 111, 103, 108,
      101, 3, 99, 111, 109, 0, 0, 1, 0, 1, 192, 12, 0, 1, 0, 1, 0, 0, 0, 18, 0, 4, 142, 250,
      179, 228, 0, 0, 41, 2, 0, 0, 0, 0, 0, 0, 0>>

\* Names as the peers hold them, label by label: the root, `b`, `a.b`,
\* `b.a.b` and `a`.
PeerNames ==
    {<<>>, <<LetterB>>, <<LetterA, LetterB>>, <<LetterB, LetterA, LetterB>>, <<LetterA>>}

\* A peer's encoder (RFC 1035 compression): a name or a suffix of it written
\* earlier in the message is a pointer to where it was first written, any
\* other label is written literally.
RECURSIVE PeerName(_, _)
PeerName(wr, labels) ==
    IF labels = <<>> THEN WriteAll(wr, <<0>>)
    ELSE IF \E e \in wr.tally : e.name = labels
    THEN LET e == CHOOSE e \in wr.tally : e.name = labels
         IN WriteAll(wr, <<192 + e.pos \div 256, e.pos % 256>>)
    ELSE PeerName(
            WriteAll([wr EXCEPT !.tally = @ \cup {[name |-> labels, pos |-> Len(wr.out)]}],
                     <<Len(Head(labels))>> \o Head(labels)),
            Tail(labels))

\* A peer's record owned by `labels`: type A, class IN, TTL 18, one byte of
\* data; and the OPT record of the captured messages.
PeerRecord(wr, labels) ==
    WriteAll(PeerName(wr, labels), <<0, 1, 0, 1, 0, 0, 0, 18, 0, 1, 7>>)
PeerOpt(wr) == WriteAll(wr, <<0, 0, 41, 16, 0, 0, 0, 0, 0, 0, 0>>)

RECURSIVE PeerRecords(_, _, _)
PeerRecords(wr, names, i) ==
    IF i > Len(names) THEN wr ELSE PeerRecords(PeerRecord(wr, names[i]), names, i + 1)

\* A peer's message: questions qs (none or one name), answers owned by the
\* names `as`, with an OPT record or without.
PeerWire(qs, as, opt) ==
    LET hdr == WriteAll(MessageWriterNew,
                   <<15, 245>> \o (IF Len(as) = 0 THEN QueryFlags ELSE ResponseFlags)
                      \o U16Bytes(Len(qs)) \o U16Bytes(Len(as)) \o <<0, 0>>
                      \o U16Bytes(IF opt THEN 1 ELSE 0))
        q == IF Len(qs) = 0 THEN hdr
             ELSE WriteAll(PeerName(hdr, qs[1]), <<0, 1, 0, 1>>)
        a == PeerRecords(q, as, 1)
    IN (IF opt THEN PeerOpt(a) ELSE a).out

\* Well-formed messages with first-occurrence compression only.
CanonicalWires ==
    {SampleQuery, SampleResponse} \cup
    {PeerWire(qs, as, opt) :
        qs \in {<<>>} \cup {<<n>> : n \in PeerNames},
        as \in {<<>>} \cup {<<n>> : n \in PeerNames}
                      \cup {<<n, m>> : n \in PeerNames,
                                        m \in {<<LetterA, LetterB>>,
                                                <<LetterB, LetterA, LetterB>>}},
        opt \in BOOLEAN}

\* Messages whose question name is a pointer to itself, or the first of two
\* pointers to each other.
LoopWires ==
    {<<15, 245, 1, 32, 0, 1, 0, 0, 0, 0, 0, 0>> \o n \o <<0, 1, 0, 1>> :
        n \in {<<192, 12>>, <<192, 14, 192, 12>>}}

CodecInputs == CanonicalWires \cup LoopWires

\* from_bytes called on a buffer and to_udp_packet on the message it returns
\* (the codec keeps nothing between calls: each run makes one call)
Codec_roundtrip ==
    /\ wire = <<>>
    /\ \E b \in CodecInputs :
         \E r \in {MessageFromWire(b)} :
            /\ wire' = b
            /\ decoded' = r
            /\ written' = IF r.kind = "ok" THEN r.msg ELSE NoWireMsg
            /\ encoded' = IF r.kind = "ok" THEN MessageToWire(r.msg) ELSE <<>>
            /\ last' = [op |-> "roundtrip", ok |-> r.kind = "ok", val |-> Len(b)]
    /\ tick' = 1 - tick
    /\ UNCHANGED <<clientVars, flags, buf, parsed, got, writer, procVars>>

\* Queries with one question, and the answer sections of responses (what a
\* cache entry holds: one record, or two).
HitQueries ==
    {SampleQuery, PeerWire(<<<<LetterA, LetterB>>>>, <<>>, FALSE),
     PeerWire(<<<<LetterB>>>>, <<>>, TRUE)}
HitAnswers ==
    {MessageFromWire(b).msg.answers :
        b \in {SampleResponse,
               PeerWire(<<<<LetterA, LetterB>>>>, <<<<LetterA, LetterB>>>>, FALSE),
               PeerWire(<<<<LetterB>>>>, <<<<LetterB>>, <<LetterA, LetterB>>>>, TRUE)}}

\* server.rs lines 117-121 on a decoded query and cached answers: the
\* cache-hit response is built and to_udp_packet is called on it
Codec_hit_response ==
    /\ wire = <<>>
    /\ \E b \in HitQueries, answers \in HitAnswers :
         \E r \in {MessageFromWire(b)} :
         \E response \in {HitResponse(r.msg, answers)} :
            /\ r.kind = "ok"
            /\ Len(r.msg.questions) = 1
            /\ wire' = b
            /\ decoded' = r
            /\ written' = response
            /\ encoded' = MessageToWire(response)
            /\ last' = [op |-> "hit", ok |-> TRUE, val |-> Len(answers)]
    /\ tick' = 1 - tick
    /\ UNCHANGED <<clientVars, flags, buf, parsed, got, writer, procVars>>

\* Names as a Message holds them (labels joined by dots): `b`, `a.b`,
\* `b.a.b` and `a`.
DottedNames ==
    {LetterB, LetterA \o <<DOT>> \o LetterB,
     LetterB \o <<DOT>> \o LetterA \o <<DOT>> \o LetterB, LetterA}

\* Messages built in memory: no question or one, and up to two answers,
\* each of type A, class IN, TTL 18 and one byte of data.
BuiltMessages ==
    {WireMsg(15, IF Len(as) = 0 THEN QueryFlags ELSE ResponseFlags,
             Len(qs), Len(as), 0, 0, qs, as, <<>>, <<>>) :
        qs \in {<<>>} \cup {<<Question(n, 1, 1)>> : n \in DottedNames},
        as \in {<<>>} \cup {<<Record(n, 1, 1, 18, 1, <<7>>)>> : n \in DottedNames}
                      \cup {<<Record(n, 1, 1, 18, 1, <<7>>), Record(k, 1, 1, 18, 1, <<7>>)>> :
                                n \in DottedNames, k \in DottedNames}}

\* to_udp_packet called on a message and from_bytes on the bytes it returns
Codec_write_read ==
    /\ wire = <<>>
    /\ \E msg \in BuiltMessages :
         \E packet \in {MessageToWire(msg)} :
            /\ written' = msg
            /\ encoded' = packet
            /\ wire' = packet
            /\ decoded' = MessageFromWire(packet)
            /\ last' = [op |-> "write_read", ok |-> TRUE, val |-> Len(packet)]
    /\ tick' = 1 - tick
    /\ UNCHANGED <<clientVars, flags, buf, parsed, got, writer, procVars>>

NextCodec == Codec_roundtrip \/ Codec_hit_response \/ Codec_write_read

\* --------------------------------------- read_labels_to_str used on its own
\* Encoded names without a pointer: the root and the names of one or two
\* one-letter labels.
PlainNames ==
    {<<0>>} \cup {<<1, x, 0>> : x \in {97, 98}}
            \cup {<<1, x, 1, y, 0>> : x \in {97, 98}, y \in {97, 98}}

\* Buffers of four names and two more bytes: a name without a pointer, a
\* label and a pointer to the first name, a label and a pointer to the
\* second, and a pointer to the first.
NameBuffers ==
    {first \o <<1, x, 192, 0>>
           \o <<1, y, 192, Len(first)>>
           \o <<192, 0>> \o <<0, 1>> :
        first \in PlainNames, x \in {97, 98}, y \in {97, 98}}

\* Where the four names of such a buffer start.
NameOffsets(b) ==
    LET n == Len(b) - 12 IN {0, n, n + 4, n + 8}

\* read_labels_to_str called on a cursor over a buffer, set at a name
Reader_read_name ==
    /\ wire = <<>>
    /\ \E b \in NameBuffers :
         \E pos \in NameOffsets(b) :
         \E r \in {ReadLabelsToStr(b, pos, <<>>, 1)} :
            /\ wire' = b
            /\ last' = [op |-> "read_name", ok |-> r.kind = "ok", val |-> pos,
                        name |-> r.val, pos |-> r.pos]
    /\ tick' = 1 - tick
    /\ UNCHANGED <<clientVars, flags, buf, parsed, got, decoded, written, encoded, writer,
                   procVars>>

\* Second bytes tried after each first byte.
SecondBytes == {0, 12, 255}

\* LabelKind::read called on a cursor over two bytes, as
\* tests::labelkind_parsing does
Reader_label_kind ==
    /\ wire = <<>>
    /\ \E b0 \in 0 .. 255, b1 \in SecondBytes :
         \E k \in {LabelKindRead(<<b0, b1>>, 0)} :
            /\ wire' = <<b0, b1>>
            /\ last' = [op |-> "label_kind", ok |-> k.kind # "err", val |-> k.val,
                        kind |-> k.kind]
    /\ tick' = 1 - tick
    /\ UNCHANGED <<clientVars, flags, buf, parsed, got, decoded, written, encoded, writer,
                   procVars>>

NextReader == Reader_read_name \/ Reader_label_kind

SpecReader == Init /\ [][NextReader]_vars

\* ------------------------------------------ a MessageWriter used on its own
\* Bytes a writer has written before it is given more.
MaxWritten == 8

\* write_name called on the writer, as tests::message_tracker does
Writer_write_name ==
    /\ Len(writer.out) <= MaxWritten
    /\ \E name \in DottedNames \cup {<<>>} :
         /\ writer' = WriteName(writer, name)
         /\ last' = [op |-> "write_name", ok |-> TRUE, val |-> name]
    /\ tick' = 1 - tick
    /\ UNCHANGED <<clientVars, flags, buf, parsed, got, wire, decoded, written, encoded, procVars>>

\* write_all called on the writer with the type and class of a question
Writer_write_all ==
    /\ Len(writer.out) <= MaxWritten
    /\ writer' = WriteAll(writer, <<0, 1, 0, 1>>)
    /\ last' = [op |-> "write_all", ok |-> TRUE, val |-> <<0, 1, 0, 1>>]
    /\ tick' = 1 - tick
    /\ UNCHANGED <<clientVars, flags, buf, parsed, got, wire, decoded, written, encoded, procVars>>

NextWriter == Writer_write_name \/ Writer_write_all

SpecWriter == Init /\ [][NextWriter]_vars

SpecCodec == Init /\ [][NextCodec]_vars

\* ==================================================================== claims
InProgress(c) == pc[c] \notin {"idle", "done", "dropped"}
Owns(c, i) == pending[i] # NoSlot /\ pending[i].tx = c
HasSlot(c) == \E i \in Ids : Owns(c, i)

\* C1 (as claimed): a query call that returns Ok returns a response the
\* upstream sent in answer to that call's own request.
C1_OwnResponseOnly ==
    \A c \in Calls : result[c].kind = "ok" => result[c].msg.for = c

\* C2: Slots::create never returns an id that is a key of pending, so the
\* new entry displaces no other call's entry and every entry in the table
\* is held, under its own id, by a call in progress; a removed id is
\* returned again by a later create (the witness).
C2_CreateStep(c) == pc[c] = "idle" /\ pc'[c] = "send"
C2_SlotReuseExclusion ==
    /\ [](\A i \in Ids : pending[i] # NoSlot =>
            /\ InProgress(pending[i].tx)
            /\ cid[pending[i].tx] = i)
    /\ [][\A c \in Calls : C2_CreateStep(c) =>
            /\ pending[cid'[c]] = NoSlot
            /\ pending'[cid'[c]] # NoSlot /\ pending'[cid'[c]].tx = c
            /\ \A b \in Calls \ {c} : HasSlot(b) => HasSlot(b)']_vars
C2_Witness ==
    \E c \in Calls : \E p \in sent :
        /\ Owns(c, p.id)
        /\ p.for # c
        /\ pc[p.for] = "done"

\* C3: when query has returned (reply, timeout, send failure) the slot it
\* created is not in the table; with no query call in progress the table is
\* empty, and a query started then does not end in OutOfSlots.
C3_NoSlotLeak ==
    /\ [](\A c \in Calls : pc[c] = "done" => ~HasSlot(c))
    /\ []((\A c \in Calls : ~InProgress(c)) => \A i \in Ids : pending[i] = NoSlot)
    /\ [][\A c \in Calls :
            (pc[c] = "idle" /\ pc'[c] # "idle" /\ \A b \in Calls : ~InProgress(b))
            => pc'[c] = "send"]_vars
\* more sequential timed-out queries than there are ids, and an empty table
C3_Witness ==
    /\ NumCalls > IdSpace
    /\ \A c \in Calls : result[c] = Err("TimedOut")
    /\ \A i \in Ids : pending[i] = NoSlot

\* C4 (as claimed): a query dropped at a suspension point after its slot was
\* created leaves no slot in the table.
C4_DropRemovesSlot ==
    \A c \in Calls : pc[c] = "dropped" => ~HasSlot(c)

\* C5: the packet query sends carries the slot id as its transaction id,
\* and the message query returns carries the caller's original id.
C5_SendStep(c) == pc[c] = "send" /\ pc'[c] = "wait"
C5_ReturnOkStep(c) == result[c].kind = "none" /\ result'[c].kind = "ok"
C5_IdRewriting ==
    [][\A c \in Calls :
        /\ C5_SendStep(c) => \E p \in sent' : p.for = c /\ p.id = cid[c]
                                            /\ sent' = sent \cup {p}
        /\ C5_ReturnOkStep(c) => result'[c].msg.id = orig[c]]_vars
\* a returned message whose id differs from the id its packet went out under
C5_Witness ==
    \E c \in Calls : \E p \in sent :
        /\ result[c].kind = "ok"
        /\ p.for = c /\ result[c].msg.for = c
        /\ p.id # result[c].msg.id

\* C6: Slots::create fails exactly when every id is in the table, leaving
\* table and counter as they were; otherwise it returns the first id after
\* the counter (wrapping) that is not in the table and adds exactly that
\* entry. (FindFreeKey is evaluated as the loop runs, so its evaluation
\* ending is the loop terminating.)
C6_CreateStep == tick' # tick /\ last'.op = "create"
C6_FirstFreeAfter(k) ==
    \E n \in 1 .. IdSpace :
        /\ k = (counter + n) % IdSpace
        /\ pending[k] = NoSlot
        /\ \A m \in 1 .. (n - 1) : pending[(counter + m) % IdSpace] # NoSlot
C6_CreateContract ==
    [][C6_CreateStep =>
        /\ ~last'.ok <=> \A i \in Ids : pending[i] # NoSlot
        /\ ~last'.ok => pending' = pending /\ counter' = counter
        /\ last'.ok =>
            /\ C6_FirstFreeAfter(last'.val)
            /\ counter' = last'.val
            /\ pending'[last'.val] # NoSlot
            /\ \A i \in Ids \ {last'.val} : pending'[i] = pending[i]]_vars
\* create has just failed on a full table
C6_Witness ==
    /\ last.op = "create" /\ ~last.ok
    /\ \A i \in Ids : pending[i] # NoSlot

\* C7: a decoded message whose id has no slot is dropped by the receive
\* loop: nothing is delivered, the table is unchanged, the loop goes on to
\* receive.
C7_OrphanStep == rlPc = "route" /\ rlPc' # "route" /\ pending[rlMsg.id] = NoSlot
C7_OrphanDropped ==
    [][C7_OrphanStep =>
        /\ pending' = pending
        /\ chan' = chan
        /\ result' = result
        /\ rlPc' = "recv"]_vars
\* the loop holds a late reply to a call that has returned
C7_Witness ==
    /\ rlPc = "route"
    /\ pending[rlMsg.id] = NoSlot
    /\ pc[rlMsg.for] = "done"

\* C8 (as claimed): whatever datagram or socket error the receive loop
\* meets, the loop stays alive.
C8_LoopAlive == rlPc # "dead"

\* C9 (as claimed): a single-question query whose question has a live cache
\* entry is answered with a copy of the query in which QR reads 1 and whose
\* answers are the cached records with decayed TTLs, and no upstream query
\* is made for it.
C9_OtherFlagsKept(f, g) ==
    /\ Opcode(f) = Opcode(g) /\ Aa(f) = Aa(g) /\ Tc(f) = Tc(g) /\ Rd(f) = Rd(g)
    /\ Ra(f) = Ra(g) /\ Z(f) = Z(g) /\ Ad(f) = Ad(g) /\ Cd(f) = Cd(g)
    /\ Rcode(f) = Rcode(g)
C9_HitStep(t) ==
    /\ tpc[t] = "start" /\ tpc'[t] \notin {"start", "killed"}
    /\ tq[t].q # 0
    /\ IsLive(cache[tq[t].q], now)
C9_CacheHitPath ==
    /\ [](\A e \in outbox : e.via = "cache" =>
            /\ Qr(e.msg.flags) = 1
            /\ C9_OtherFlagsKept(e.msg.flags, tq[e.to].flags)
            /\ e.msg.id = tq[e.to].id
            /\ e.msg.q = tq[e.to].q
            /\ ~tup[e.to])
    /\ [][\A t \in Tasks : C9_HitStep(t) =>
            /\ upq' = upq
            /\ \E e \in outbox' :
                 /\ e.to = t
                 /\ e.msg.answers = Decayed(cache[tq[t].q], now)
                 /\ outbox' = outbox \cup {e}]_vars

\* C10 (as claimed): set_qr(v) leaves the read value of every other flag
\* unchanged and QR then reads v.
C10_SetQrStep == tick' # tick /\ last'.op = "set_qr"
C10_FlagIsolation ==
    [][C10_SetQrStep =>
        /\ Qr(flags') = last'.val
        /\ Opcode(flags') = Opcode(flags)
        /\ Aa(flags') = Aa(flags)
        /\ Tc(flags') = Tc(flags)
        /\ Rd(flags') = Rd(flags)
        /\ Ra(flags') = Ra(flags)
        /\ Z(flags') = Z(flags)
        /\ Ad(flags') = Ad(flags)
        /\ Cd(flags') = Cd(flags)
        /\ Rcode(flags') = Rcode(flags)]_vars

\* A reply datagram has been sent to the client of inbound datagram t.
Replied(t) == \E e \in outbox : e.to = t

\* C11 (as claimed): once an inbound datagram has decoded, a reply is
\* eventually sent to its client, whatever the upstream does.
C11_EveryQueryAnswered ==
    \A t \in Tasks : (tpc[t] = "start") ~> (Replied(t) \/ srvPc = "dead")

\* C12 (as claimed): when the upstream query of a task fails (the receive
\* fails, or what is received does not decode), the task sends its client a
\* response with QR = 1 and RCODE = 2 and does not crash.
C12_UpstreamFailStep(t) ==
    /\ tpc[t] = "up_recv" /\ tpc'[t] \notin {"up_recv", "killed"}
    /\ \A d \in usock \ usock' : MessageFromBytes(d).kind # "ok"
C12_UpstreamFailureServfail ==
    [][\A t \in Tasks : C12_UpstreamFailStep(t) =>
        /\ tpc'[t] # "panicked"
        /\ \E e \in outbox' \ outbox :
             /\ e.to = t
             /\ Qr(e.msg.flags) = 1
             /\ Rcode(e.msg.flags) = 2]_vars

\* C13 (as claimed): a single-question query with no live cache entry is
\* forwarded upstream; when the upstream query succeeds with message m, m is
\* sent to the client and its answers are in the cache under the question
\* until they expire; a query for a question with a live entry is answered
\* from the cache.
C13_MissStep(t) ==
    /\ tpc[t] = "start" /\ tpc'[t] \notin {"start", "killed"}
    /\ tq[t].q # 0
    /\ ~IsLive(cache[tq[t].q], now)
C13_SuccessStep(t, d) ==
    /\ tpc[t] = "up_recv" /\ tpc'[t] \notin {"up_recv", "killed"}
    /\ tq[t].q # 0
    /\ d \in usock \ usock'
    /\ MessageFromBytes(d).kind = "ok"
C13_CacheMissPath ==
    [][\A t \in Tasks :
        /\ C13_MissStep(t) => upq' = upq \cup {Numbered(tq[t], t)} /\ outbox' = outbox
        /\ \A d \in usock : C13_SuccessStep(t, d) =>
             /\ outbox' = outbox \cup {[to |-> t, via |-> "upstream", msg |-> d.msg]}
             /\ \A i \in 1 .. Len(d.msg.answers) : d.msg.answers[i].ttl > 0
                  => /\ cache'[tq[t].q].answers = d.msg.answers
                     /\ IsLive(cache'[tq[t].q], now)
        /\ C9_HitStep(t) => \E e \in outbox' \ outbox : e.to = t /\ e.via = "cache"]_vars

\* C14 (as claimed): a client datagram that does not decode is dropped: no
\* reply, no upstream query, the cache and the other tasks as they were, and
\* run_loop goes on receiving.
C14_MalformedStep(t) ==
    /\ tpc[t] = "none" /\ tpc'[t] # "none"
    /\ MessageFromBytes(tin'[t]).kind # "ok"
C14_MalformedDropped ==
    [][\A t \in Tasks : C14_MalformedStep(t) =>
        /\ outbox' = outbox
        /\ upq' = upq
        /\ cache' = cache
        /\ \A u \in Tasks \ {t} : tpc'[u] = tpc[u]
        /\ srvPc' = "recv"]_vars

\* C15 (as claimed): a datagram with two questions is forwarded to the
\* upstream, and what is sent to its client is the upstream's message, never
\* one made from the cache.
C15_TwoQuestions(t) == tpc[t] # "none" /\ tin[t].len12 /\ tin[t].qdcount = 2
C15_TwoQuestionsForwarded ==
    /\ \A t \in Tasks : C15_TwoQuestions(t) ~> (tup[t] \/ srvPc = "dead")
    /\ [](\A e \in outbox : C15_TwoQuestions(e.to) => e.via = "upstream")

\* C17: a decoded query without a question is sent upstream as it is; when
\* its upstream query succeeds the message received is sent to the client;
\* no step of its task changes the cache, whatever the cache holds.
C17_TaskStep(t) ==
    /\ tq[t].q = 0
    /\ tpc[t] \in {"start", "up_recv"}
    /\ tpc'[t] \notin {tpc[t], "killed"}
C17_ZeroQuestionBypass ==
    /\ [](\A e \in outbox : tq[e.to].q = 0 /\ tpc[e.to] # "none" => e.via = "upstream")
    /\ [][\A t \in Tasks : C17_TaskStep(t) =>
            /\ cache' = cache
            /\ tpc[t] = "start" =>
                 /\ upq' = upq \cup {Numbered(tq[t], t)}
                 /\ tpc'[t] = "up_recv"
            /\ \A d \in usock \ usock' : MessageFromBytes(d).kind = "ok" =>
                 outbox' = outbox \cup {[to |-> t, via |-> "upstream", msg |-> d.msg]}]_vars
\* a query without a question was relayed while the cache held a live entry
C17_Witness ==
    \E t \in Tasks : \E q \in Questions :
        /\ tq[t].q = 0 /\ tpc[t] = "done"
        /\ Replied(t)
        /\ IsLive(cache[q], now)

\* C16: from_bytes returns an Err, neither a message nor a panic, for every
\* buffer holding a header whose qdcount is 2 or more, whatever follows the
\* header; a well-formed buffer with qdcount 0 or 1 parses to its message.
C16_ParseStep == tick' # tick /\ last'.op = "from_bytes"
C16_MultiQuestionRejected ==
    [][C16_ParseStep =>
        /\ buf'.len12 /\ buf'.qdcount >= 2 => parsed'.kind = "err"
        /\ (buf'.len12 /\ buf'.qdcount \in {0, 1} /\ buf'.qname = "ok" /\ buf'.rrs = "ok")
             => /\ parsed'.kind = "ok"
                /\ parsed'.msg = buf'.msg
                /\ (parsed'.msg.q = 0) <=> (buf'.qdcount = 0)]_vars
\* two questions, the first name not UTF-8: an Err all the same
C16_Witness ==
    /\ last.op = "from_bytes"
    /\ buf.len12 /\ buf.qdcount = 2 /\ buf.qname = "badutf8"
    /\ parsed.kind = "err"

\* C18: a get that hits, e whole seconds after the entry was inserted,
\* returns as many records as are stored, each with TTL max(t - e, 0) for
\* the stored TTL t and with its other fields as stored.
C18_GetStep == tick' # tick /\ last'.op = "get"
C18_Elapsed(q) == now - cache[q].inserted_at
C18_TtlDecay ==
    [][C18_GetStep /\ last'.ok =>
        LET stored == cache[last'.val].answers
            e == C18_Elapsed(last'.val)
        IN /\ got'.hit
           /\ Len(got'.answers) = Len(stored)
           /\ \A i \in 1 .. Len(stored) :
                /\ got'.answers[i].ttl = (IF stored[i].ttl - e > 0 THEN stored[i].ttl - e ELSE 0)
                /\ got'.answers[i].name = stored[i].name]_vars
\* a record stored with TTL 3 was read two seconds later as TTL 1
C18_Witness ==
    /\ last.op = "get" /\ got.hit
    /\ C18_Elapsed(last.val) = 2
    /\ cache[last.val].answers[1].ttl = 3
    /\ got.answers[1].ttl = 1

\* C19: a get leaves every entry (records and insertion time) as it was,
\* and what it returns is fixed by the stored entry and the time of the
\* call alone, whatever gets came before.
C19_BaselineKept ==
    [][C18_GetStep =>
        /\ cache' = cache
        /\ got' = CacheGet(cache', last'.val, now')]_vars
\* a get has returned adjusted TTLs and the entry holds the TTLs it was
\* stored with, the other question having an entry too
C19_Witness ==
    /\ last.op = "get" /\ got.hit
    /\ got.answers # cache[last.val].answers
    /\ \E q \in Questions \ {last.val} : cache[q] # NoEntry

\* C20 (as claimed): no record the cache stores, and no record a get
\* returns, has a TTL above the ceiling.
C20_TtlCeiling ==
    /\ \A q \in Questions : \A i \in 1 .. Len(cache[q].answers) :
         cache[q].answers[i].ttl <= MAX_TTL_SECONDS
    /\ \A i \in 1 .. Len(got.answers) : got.answers[i].ttl <= MAX_TTL_SECONDS

\* C21 (as claimed): set with an empty record set returns normally and
\* leaves the cache as it was.
C21_SetStep == tick' # tick /\ last'.op = "set"
C21_EmptySetNoop ==
    [][C21_SetStep /\ last'.rr = <<>> =>
        /\ last'.ok
        /\ cache' = cache]_vars

\* C22: get(q) is a hit exactly while q has an entry and the whole seconds
\* since its insertion are fewer than the smallest TTL of its records, or
\* than the ceiling if that is smaller; only set, get and the clock act.
C22_Lifetime(e) ==
    LET k == Min({e.answers[i].ttl : i \in 1 .. Len(e.answers)})
    IN IF k < MAX_TTL_SECONDS THEN k ELSE MAX_TTL_SECONDS
C22_Expiry ==
    [][C18_GetStep =>
        LET e == cache[last'.val]
        IN got'.hit <=> (e # NoEntry /\ now - e.inserted_at < C22_Lifetime(e))]_vars
\* a record stored with TTL 999999 is a miss once the ceiling has passed
C22_Witness ==
    /\ last.op = "get" /\ ~got.hit
    /\ cache[last.val] # NoEntry
    /\ cache[last.val].answers[1].ttl > MAX_TTL_SECONDS
    /\ C18_Elapsed(last.val) >= MAX_TTL_SECONDS

\* C23 (as claimed): once set(q, records) with records given has returned,
\* q's entry is the snapshot just given or q has no live entry.
C23_SetReplaces ==
    [][C21_SetStep /\ Len(last'.rr) > 0 =>
        LET e == cache'[last'.val]
        IN \/ ~IsLive(e, now')
           \/ e.answers = last'.rr /\ e.inserted_at = now']_vars

\* C25 (as claimed): from_bytes returns an Err and does not panic for a
\* buffer shorter than the header, for one that ends inside a question, a
\* name or a record, and for one with a label that is not UTF-8.
C25_Malformed(d) ==
    \/ ~d.len12
    \/ d.qdcount = 1 /\ d.qname # "ok"
    \/ d.rrs # "ok"
C25_ParseFailuresAreErrors ==
    [][C16_ParseStep /\ C25_Malformed(buf') => parsed'.kind = "err"]_vars

\* C24 (as claimed): for every well-formed message with first-occurrence
\* compression only, from_bytes returns a message and to_udp_packet of that
\* message gives the same bytes.
C24_RoundtripStep == tick' # tick /\ last'.op = "roundtrip"
C24_CanonicalRoundtrip ==
    [][C24_RoundtripStep /\ wire' \in CanonicalWires =>
        /\ decoded'.kind = "ok"
        /\ encoded' = wire']_vars

\* C26 (as claimed): reading the names of any message ends with a name or
\* an error, also when a pointer leads back to itself.
C26_NameReadingTerminates ==
    [][C24_RoundtripStep => decoded'.kind \in {"ok", "err"}]_vars

\* C27: while a query waits for its upstream reply and the server is up,
\* run_loop can receive the next datagram, a task whose question has a live
\* cache entry can answer from the cache, and a task can take a reply that
\* has arrived from the upstream.
C27_Waiting == srvPc = "recv" /\ \E u \in Tasks : tpc[u] = "up_recv"
C28_Suspended(w) ==
    IF w = ReceiveLoop
    THEN rlPc \in {"recv", "sleep"}
    ELSE pc[w] \in {"send", "wait"}

C28_Moves(w) ==
    IF w = ReceiveLoop
    THEN rlPc = "route" /\ rlPc' # "route"
    ELSE pc'[w] # pc[w]

C28_LockDiscipline ==
    /\ [](/\ Cardinality(lock) <= 1
          /\ \A w \in lock : AtLock(w) /\ ~C28_Suspended(w))
    /\ [][pending' # pending \/ counter' # counter =>
            /\ \A w \in lock : C28_Moves(w)
            /\ lock' = {}]_vars

\* A call holds the guard for its clean-up after a timeout while another call
\* is suspended in its timed wait with its slot in the table.
C28_Witness ==
    \E c \in Calls : \E b \in Calls :
        /\ lock = {c}
        /\ pc[c] = "timedout"
        /\ pc[b] = "wait"
        /\ pending[cid[b]] # NoSlot


\* C29: header counts match sections. In the bytes to_udp_packet returns for
\* a message the resolver serializes (a decoded query or response passed on
\* as it is, or the cache-hit response), the four counts of the header are
\* the numbers of questions, answers, authority and additional records of
\* the message, all of which write puts out: reading the bytes back gives
\* sections of those sizes.
C29_SerializeStep == tick' # tick /\ last'.op \in {"roundtrip", "hit"} /\ last'.ok
C29_CountsMatchSections ==
    [][C29_SerializeStep =>
        LET m == written'
            d == MessageFromWire(encoded')
        IN /\ U16At(encoded', 4) = Len(m.questions)
           /\ U16At(encoded', 6) = Len(m.answers)
           /\ U16At(encoded', 8) = Len(m.authorities)
           /\ U16At(encoded', 10) = Len(m.additionals)
           /\ d.kind = "ok"
           /\ Len(d.msg.questions) = Len(m.questions)
           /\ Len(d.msg.answers) = Len(m.answers)
           /\ Len(d.msg.authorities) = Len(m.authorities)
           /\ Len(d.msg.additionals) = Len(m.additionals)]_vars

\* A cache-hit response was serialized whose query came with no answer and
\* an additional record, and whose two answers come from the cache.
C29_Witness ==
    /\ last.op = "hit"
    /\ decoded.msg.ancount = 0
    /\ Len(written.answers) = 2
    /\ Len(written.additionals) = 1
    /\ U16At(encoded, 6) = 2


\* C30 (as claimed): no single-flight de-duplication. A query that misses
\* the cache while another query of the same question is waiting for the
\* upstream sends a request of its own; each of the two, when it takes an
\* upstream response that decodes, sends it to its client and calls set, so
\* that the cache then holds that response's answers, inserted now (the later
\* write wins); and an entry is always the whole answer section of one
\* response, never a mixture.
C30_Peer(t, u) == u # t /\ tq[t].q # 0 /\ tq[u].q = tq[t].q /\ tup[u]
C30_MissStep(t) ==
    /\ tpc[t] = "start" /\ tpc'[t] \notin {"start", "killed"}
    /\ \E u \in Tasks : C30_Peer(t, u) /\ tpc[u] = "up_recv"
    /\ ~IsLive(cache[tq[t].q], now)
C30_ResponseStep(t, d) ==
    /\ tpc[t] = "up_recv" /\ tpc'[t] \notin {"up_recv", "killed"}
    /\ \E u \in Tasks : C30_Peer(t, u)
    /\ d \in usock \ usock'
    /\ MessageFromBytes(d).kind = "ok"
C30_Snapshots ==
    {a.answers : a \in UNION {UpstreamAnswers(m) : m \in InboundQueries}}
C30_NoSingleFlight ==
    /\ [](\A q \in Questions : cache[q] # NoEntry => cache[q].answers \in C30_Snapshots)
    /\ [][\A t \in Tasks :
            /\ C30_MissStep(t) =>
                 /\ Numbered(tq[t], t) \notin upq
                 /\ upq' = upq \cup {Numbered(tq[t], t)}
            /\ \A d \in usock : C30_ResponseStep(t, d) =>
                 /\ outbox' = outbox \cup {[to |-> t, via |-> "upstream", msg |-> d.msg]}
                 /\ cache'[tq[t].q].answers = d.msg.answers
                 /\ cache'[tq[t].q].inserted_at = now]_vars


\* C31 (as claimed): decoding the encoder's output gives back the message.
\* For every message whose names are dot-joined labels, from_bytes of
\* to_udp_packet of the message succeeds and has the same question and the
\* same records (name, type, class, TTL, rdata), also when the encoder wrote
\* literal labels followed by a pointer to a suffix written before.
C31_WriteReadStep == tick' # tick /\ last'.op = "write_read"
C31_DecodeEncoded ==
    [][C31_WriteReadStep =>
        /\ decoded'.kind = "ok"
        /\ decoded'.msg.questions = written'.questions
        /\ decoded'.msg.answers = written'.answers]_vars


\* C32: compression pointers written by the encoder. write_name writes the
\* labels of the name literally, each as a length byte and its characters,
\* up to the first dotted suffix (the whole name included) that the writer has
\* recorded; there it writes a two-byte pointer, top two bits 11, whose
\* offset is the one recorded for that suffix, and stops; with no recorded
\* suffix it ends the name with a zero byte. Every suffix it starts literally
\* is recorded at the offset of its length byte. A recorded offset never
\* changes, no name is recorded twice, and the bytes at a recorded offset are
\* the first label of the recorded name: the pointer's offset is where the
\* name or suffix was first written.
C32_Starts(name) == {i \in 1 .. Len(name) : i = 1 \/ name[i - 1] = DOT}
C32_Suffix(name, i) == SubSeq(name, i, Len(name))
C32_Label(name, i) ==
    LET dots == {k \in i .. Len(name) : name[k] = DOT}
    IN SubSeq(name, i, IF dots = {} THEN Len(name) ELSE Min(dots) - 1)
C32_Recorded(wr, n) == \E e \in wr.tally : e.name = n
C32_Expected(wr, name) ==
    LET known == {i \in C32_Starts(name) : C32_Recorded(wr, C32_Suffix(name, i))}
        j == IF known = {} THEN 0 ELSE Min(known)
        n == IF j = 0 THEN Len(name) ELSE j - 2
        lit == IF name = <<>> \/ j = 1 THEN <<>>
               ELSE [k \in 1 .. n + 1 |->
                        IF k = 1 \/ name[k - 1] = DOT
                        THEN Len(C32_Label(name, k)) ELSE name[k - 1]]
        end == IF j = 0 THEN <<0>>
               ELSE LET e == CHOOSE e \in wr.tally : e.name = C32_Suffix(name, j)
                    IN <<192 + e.pos \div 256, e.pos % 256>>
    IN [out |-> wr.out \o lit \o end,
        tally |-> wr.tally \cup
            {[name |-> C32_Suffix(name, i), pos |-> Len(wr.out) + i - 1] :
                i \in {i \in C32_Starts(name) : j = 0 \/ i < j}}]
C32_WriteNameStep == tick' # tick /\ last'.op = "write_name"
C32_PointerWhenWritten ==
    /\ [](\A e \in writer.tally :
            /\ \A f \in writer.tally : f.name = e.name => f = e
            /\ LET l == C32_Label(e.name, 1)
               IN SubSeq(writer.out, e.pos + 1, e.pos + 1 + Len(l)) = <<Len(l)>> \o l)
    /\ [][/\ writer.tally \subseteq writer'.tally
          /\ C32_WriteNameStep => writer' = C32_Expected(writer, last'.val)]_vars

\* `b.a.b` was written as the label `b` and a pointer to `a.b`, which had
\* been written at offset 3, after the name `a`.
C32_Witness ==
    /\ last.op = "write_name"
    /\ last.val = LetterB \o <<DOT>> \o LetterA \o <<DOT>> \o LetterB
    /\ writer.out = <<1, 97, 0, 1, 97, 1, 98, 0, 1, 98, 192, 3>>


\* C33: read position after a pointer. When the name read from an offset
\* ends in a compression pointer (after any literal labels), and the
\* pointed-to name is read, the cursor is then at the byte immediately after
\* the two bytes of that pointer, whatever the length of the pointed-to name
\* and however many further pointers it goes through.
RECURSIVE C33_PointerAt(_, _)
C33_PointerAt(b, pos) ==
    IF pos >= Len(b) \/ b[pos + 1] = 0 THEN -1
    ELSE IF b[pos + 1] >= 192 THEN pos
    ELSE C33_PointerAt(b, pos + 1 + b[pos + 1])
C33_ReadNameStep == tick' # tick /\ last'.op = "read_name"
C33_ResumeAfterPointer ==
    [][C33_ReadNameStep /\ last'.ok /\ C33_PointerAt(wire', last'.val) # -1 =>
        last'.pos = C33_PointerAt(wire', last'.val) + 2]_vars

\* The third name was read: a label, then a pointer to a label and a pointer
\* to the two-label name at the start of the buffer.
C33_Witness ==
    /\ last.op = "read_name"
    /\ last.ok
    /\ wire = <<1, 97, 1, 98, 0, 1, 97, 192, 0, 1, 98, 192, 5, 192, 0, 0, 1>>
    /\ last.val = 9
    /\ last.pos = 13


\* C34: length-byte classification. LabelKind::read maps a byte 0 to the end
\* of the name, a byte of 192 or more (both high bits set) to a pointer whose
\* offset is the low six bits of that byte followed by the next byte, and
\* every other byte b to a data label of length b.
C34_LabelKindStep == tick' # tick /\ last'.op = "label_kind"
C34_Classification ==
    [][C34_LabelKindStep =>
        LET b0 == wire'[1]
            b1 == wire'[2]
        IN /\ last'.ok
           /\ b0 = 0 => last'.kind = "absent"
           /\ b0 >= 192 => last'.kind = "pointer" /\ last'.val = (b0 - 192) * 256 + b1
           /\ (b0 > 0 /\ b0 < 192) => last'.kind = "data" /\ last'.val = b0]_vars

\* 0xC0 0x0C was read as a pointer to offset 12.
C34_Witness ==
    /\ last.op = "label_kind"
    /\ wire = <<192, 12>>
    /\ last.kind = "pointer"
    /\ last.val = 12


\* C35 (as claimed): cleanup removes only the caller's own slot. The remove
\* a query call performs on its send-error, timeout or channel-error path
\* never takes from the table a slot that belongs to another call in
\* progress, so no call fails because another call's cleanup dropped its
\* reply channel.
C35_CleanupStep(c) ==
    /\ pc[c] \in {"sendfail", "timedout", "rxclosed"}
    /\ pc'[c] = "done"
C35_CleanupOwnSlotOnly ==
    [][\A c \in Calls : C35_CleanupStep(c) =>
        \A b \in Calls \ {c} : \A i \in Ids :
            Owns(b, i) /\ InProgress(b) => /\ Owns(b, i)'
                                            /\ chan'[b] = chan[b]]_vars


\* C36 (as claimed): the processor pairs replies with requests. With two
\* cache-miss queries in flight at once, the datagram a task takes from the
\* upstream socket is the reply to the request that task sent, and the
\* message sent to a client on the forwarded path has the question of that
\* client's query.
C36_TakesReply(t, d) ==
    /\ tpc[t] = "up_recv"
    /\ tpc'[t] \in {"done", "panicked"}
    /\ d \in usock \ usock'
C36_RepliesPaired ==
    /\ [][\A t \in Tasks : \A d \in usock : C36_TakesReply(t, d) => d.n = t]_vars
    /\ [](\A o \in outbox : o.via = "upstream" => o.msg.q = tq[o.to].q)


\* C37 (as claimed): no cache poisoning. In every reachable state the
\* records the cache holds under a question are those of an upstream
\* response to a request for that question, never those of a response to a
\* request for another question.
C37_NoPoisoning ==
    \A q \in Questions :
        cache[q] # NoEntry =>
            \A i \in 1 .. Len(cache[q].answers) : cache[q].answers[i].name = q


\* C38 (as claimed): reply transaction id. Every datagram the processor
\* sends to a client carries the transaction id of that client's query, on
\* the cache-hit path and on the forwarded path.
C38_ReplyCarriesQueryId ==
    \A o \in outbox : o.msg.id = tq[o.to].id


\* C39: a cache hit never serves TTL 0. No entry is stored with a lifetime
\* of 0, every record a get hit returns has a decayed TTL of at least 1, and
\* a get at or after the full TTL of a record of the stored entry is a miss.
C39_GetStep(q) == tick' # tick /\ last'.op = "get" /\ last'.val = q
C39_Elapsed(q) == now - cache[q].inserted_at
C40_Delivered(c) == chan'[c] # chan[c] /\ chan'[c] \notin {Empty, Closed}
C40_HasSlot(c) == \E i \in Ids : Owns(c, i)
C40_RouteStep == rlPc = "route" /\ rlPc' # "route"
C40_AtMostOneDelivery ==
    /\ [][\A c \in Calls : C40_Delivered(c) =>
            /\ C40_RouteStep
            /\ chan[c] = Empty
            /\ Owns(c, rlMsg.id)
            /\ ~C40_HasSlot(c)']_vars
    /\ [][\A c \in Calls : C40_HasSlot(c)' /\ ~C40_HasSlot(c) => pc[c] = "idle"]_vars
    /\ [](\A c \in Calls : chan[c] \notin {Empty, Closed} => ~C40_HasSlot(c))
    /\ [][C40_RouteStep /\ pending[rlMsg.id] = NoSlot =>
            /\ pending' = pending
            /\ chan' = chan
            /\ rlPc' = "recv"]_vars

\* The reply to a call was delivered to it, and the loop has received a
\* second copy, whose id has no slot any more.
C40_Witness ==
    \E c \in Calls :
        /\ pc[c] = "wait"
        /\ chan[c] \notin {Empty, Closed}
        /\ rlPc = "route"
        /\ rlMsg.for = c
        /\ pending[rlMsg.id] = NoSlot

====
